---- MODULE Spec2Model ----
(***************************************************************************)
(* Classroom seating plan solver (plandeclasse): the CP-SAT backend         *)
(* SolveurCPSAT.resoudre, its domain pre-computation, its model, its        *)
(* lexicographic driver and its final validator, with the constraint        *)
(* classes it is called with; the translator of the UI payload            *)
(* (fabrique_contraintes_ui, the locked placements of the solve task), the  *)
(* constraint registry, and the backtracking solver                         *)
(* SolveurAleatoireRetourArriere.resoudre.                                  *)
(*                                                                          *)
(* Conventions of the translation:                                          *)
(*   - Optional[T] is a sequence: << >> is None, <<v>> is the value v.      *)
(*   - a Position is a record [x, y, siege]; a seat of the solver's         *)
(*     inventory (_Seat) is a record [idx, x, y, s, px, py], idx from 0.    *)
(*   - a student (Eleve) is a record [nom, genre]; genre is the string the  *)
(*     solver reads through getattr(el, "genre", None), held as a sequence  *)
(*     of one-character strings so that strip/lower/startswith are          *)
(*     computed. Students are equal when their names are (Eleve.__eq__).    *)
(*   - the roster is a sequence, so student indices run from 1 where the    *)
(*     code's run from 0; seat indices run from 0 as in the code.           *)
(*   - a constraint is a record whose field "type" is the wire tag of its   *)
(*     class (TypeContrainte).                                              *)
(***************************************************************************)
EXTENDS Integers, Sequences, FiniteSets, TLC

\* ------------------------------------------------------------------ bounds

\* Largest number of constraints handed to one solve.
MaxContraintes == 2
\* Largest k of a FrontRows / BackRows constraint.
MaxK == 1
\* Largest d of a FarApart constraint.
MaxD == 1

\* ------------------------------------------------------------ small helpers

Abs(n) == IF n < 0 THEN -n ELSE n

Max2(a, b) == IF a >= b THEN a ELSE b

Min2(a, b) == IF a <= b THEN a ELSE b

RECURSIVE SumOver(_, _)
\* sum(f[i] for i in S) for a finite set S in the domain of f
SumOver(f, S) == IF S = {} THEN 0
                 ELSE LET i == CHOOSE j \in S : TRUE
                      IN f[i] + SumOver(f, S \ {i})

SetMax(S, default) == IF S = {} THEN default ELSE CHOOSE m \in S : \A n \in S : n <= m

SetMin(S, default) == IF S = {} THEN default ELSE CHOOSE m \in S : \A n \in S : m <= n

\* ------------------------------------------------------------------- Salle

RowLenMax(schema) == SetMax({Len(schema[r]) : r \in DOMAIN schema}, 0)

\* Salle.__init__: one Table per positive entry of the schema, at
\* (column index, row index), both from 0; entries <= 0 are gaps.
TableKeys(schema) ==
    { <<x, y>> \in (0..(RowLenMax(schema) - 1)) \X (0..(Len(schema) - 1)) :
        /\ x < Len(schema[y + 1])
        /\ schema[y + 1][x + 1] > 0 }

\* Salle.capacite_par_table
capacite_par_table(schema) ==
    [tk \in TableKeys(schema) |-> schema[tk[2] + 1][tk[1] + 1]]

\* Salle.toutes_les_places, as a set (its order is PlaceBefore)
toutes_les_places(schema) ==
    UNION { { [x |-> tk[1], y |-> tk[2], siege |-> s] :
                s \in 0..(capacite_par_table(schema)[tk] - 1) } :
            tk \in TableKeys(schema) }

\* The order in which toutes_les_places lists the seats: tables in the order
\* they were built (row by row, then column by column), seats 0..cap-1.
PlaceBefore(p, q) ==
    \/ p.y < q.y
    \/ p.y = q.y /\ p.x < q.x
    \/ p.y = q.y /\ p.x = q.x /\ p.siege < q.siege

\* Salle.max_y: largest row index holding a table, -1 without tables
max_y(schema) == SetMax({tk[2] : tk \in TableKeys(schema)}, -1)

\* ------------------------------------------------------------ seat inventory

\* SolveurCPSAT._enumerate_seats: idx counts the places listed before;
\* px, py are the grid coordinates without a geometry, else the pixel ones.
enumerate_seats(schema, geom, offsets) ==
    LET places == toutes_les_places(schema)
        IdxOf(p) == Cardinality({q \in places : PlaceBefore(q, p)})
        Off(p) == IF <<p.x, p.y>> \in DOMAIN offsets
                  THEN offsets[<<p.x, p.y>>] ELSE <<0, 0>>
        Px(p) == IF geom = << >> THEN p.x
                 ELSE p.x * geom[1].table_pitch_x + Off(p)[1]
                        + geom[1].seat_offset_x + p.siege * geom[1].seat_pitch_x
        Py(p) == IF geom = << >> THEN p.y
                 ELSE p.y * geom[1].table_pitch_y + Off(p)[2] + geom[1].seat_offset_y
        SeatAt(i) == LET p == CHOOSE q \in places : IdxOf(q) = i
                     IN [idx |-> i, x |-> p.x, y |-> p.y, s |-> p.siege,
                         px |-> Px(p), py |-> Py(p)]
    IN [i \in 0..(Cardinality(places) - 1) |-> SeatAt(i)]

table_key(st) == <<st.x, st.y>>

\* SolveurCPSAT._seat_index_of; the KeyError of an unknown position is the
\* value -1 here, and the callers raise on it.
seat_index_of(p, seats) ==
    IF \E i \in DOMAIN seats : seats[i].x = p.x /\ seats[i].y = p.y /\ seats[i].s = p.siege
    THEN CHOOSE i \in DOMAIN seats : seats[i].x = p.x /\ seats[i].y = p.y /\ seats[i].s = p.siege
    ELSE -1

\* SolveurCPSAT._adjacent_edges_same_table: one edge (i, j), i < j, per pair
\* of consecutive seats of a table.
adjacent_edges_same_table(seats) ==
    { <<i, j>> \in (DOMAIN seats) \X (DOMAIN seats) :
        /\ i < j
        /\ table_key(seats[i]) = table_key(seats[j])
        /\ seats[j].s = seats[i].s + 1 }

\* -------------------------------------------------------------- constraints

\* Constructors of the eleven constraint classes. A constraint names its
\* students by nom. The unary classes compare students by object identity
\* ("eleve is self.eleve"), so a unary constraint carries meme_objet: TRUE
\* when its Eleve is the roster's own object, FALSE when it is another
\* object of the same name (equal by Eleve.__eq__). FrontRows, BackRows and
\* FarApart also carry the attribute "metric" that
\* contraintes/enregistrement.py sets on them ("px" for FarApart goes with
\* en_pixels = True).
FrontRows(e, same, k, m) ==
    [type |-> "front_rows", eleve |-> e, meme_objet |-> same, k |-> k, metric |-> m]

\* max_y is DoitEtreDansDernieresRangees._max_y, read from the room at
\* construction.
BackRows(e, same, k, m, my) ==
    [type |-> "back_rows", eleve |-> e, meme_objet |-> same, k |-> k, metric |-> m,
     max_y |-> my]

SoloTable(e, same) == [type |-> "solo_table", eleve |-> e, meme_objet |-> same]

EmptyNeighbor(e, same) == [type |-> "empty_neighbor", eleve |-> e, meme_objet |-> same]

NoAdjacent(e, same) == [type |-> "no_adjacent", eleve |-> e, meme_objet |-> same]

ExactSeat(e, same, p) ==
    [type |-> "exact_seat", eleve |-> e, meme_objet |-> same, ou |-> p]

FarApart(a, b, d, m) == [type |-> "far_apart", a |-> a, b |-> b, d |-> d, metric |-> m]

SameTable(a, b) == [type |-> "same_table", a |-> a, b |-> b]

Adjacent(a, b) == [type |-> "adjacent", a |-> a, b |-> b]

ForbidTable(x, y) == [type |-> "forbid_table", x |-> x, y |-> y]

ForbidSeat(x, y, s) == [type |-> "forbid_seat", x |-> x, y |-> y, seat |-> s]

UnaryTypes == {"front_rows", "back_rows", "solo_table", "empty_neighbor",
               "no_adjacent", "exact_seat"}

BinaryTypes == {"far_apart", "same_table", "adjacent"}

\* Contrainte.implique: the names of the students a constraint involves
implique(c) ==
    IF c.type \in UnaryTypes THEN <<c.eleve>>
    ELSE IF c.type \in BinaryTypes THEN <<c.a, c.b>>
    ELSE << >>

\* "eleve is self.eleve" for the roster student of that name
EstLEleve(c, nom) == c.eleve = nom /\ c.meme_objet

meme_table(p, q) == p.x = q.x /\ p.y = q.y

distance_manhattan(p, q) == Abs(p.x - q.x) + Abs(p.y - q.y)

\* Contrainte.places_autorisees(eleve, salle) for the classes that filter
\* positions: Optional[set of Position], << >> when the class does not
\* filter for that student.
places_autorisees(c, nom, schema) ==
    LET places == toutes_les_places(schema) IN
    CASE c.type = "front_rows" ->
            IF ~EstLEleve(c, nom) THEN << >>
            ELSE << {p \in places : p.y < c.k} >>
      [] c.type = "back_rows" ->
            IF ~EstLEleve(c, nom) THEN << >>
            ELSE << {p \in places : p.y >= Max2(0, c.max_y - c.k + 1)} >>
      [] c.type = "exact_seat" ->
            IF ~EstLEleve(c, nom) THEN << >> ELSE << {c.ou} >>
      [] c.type = "forbid_table" ->
            << {p \in places : ~(p.x = c.x /\ p.y = c.y)} >>
      [] c.type = "forbid_seat" ->
            << {p \in places : ~(p.x = c.x /\ p.y = c.y /\ p.siege = c.seat)} >>
      [] OTHER -> << >>

\* Contrainte.est_satisfaite(affectation), affectation a function from
\* student names to Positions.
est_satisfaite(c, aff) ==
    LET Has(n) == n \in DOMAIN aff IN
    CASE c.type = "front_rows" ->
            Has(c.eleve) => aff[c.eleve].y < c.k
      [] c.type = "back_rows" ->
            Has(c.eleve) => aff[c.eleve].y >= Max2(0, c.max_y - c.k + 1)
      [] c.type = "solo_table" ->
            Has(c.eleve) =>
                \A n \in DOMAIN aff :
                    ~EstLEleve(c, n) => ~meme_table(aff[c.eleve], aff[n])
      [] c.type = "empty_neighbor" -> TRUE
      [] c.type = "no_adjacent" ->
            Has(c.eleve) =>
                \A n \in DOMAIN aff : ~EstLEleve(c, n) =>
                    ~(/\ meme_table(aff[n], aff[c.eleve])
                      /\ Abs(aff[n].siege - aff[c.eleve].siege) = 1)
      [] c.type = "exact_seat" ->
            Has(c.eleve) => aff[c.eleve] = c.ou
      [] c.type = "far_apart" ->
            (Has(c.a) /\ Has(c.b)) => distance_manhattan(aff[c.a], aff[c.b]) >= c.d
      [] c.type = "same_table" ->
            (Has(c.a) /\ Has(c.b)) => meme_table(aff[c.a], aff[c.b])
      [] c.type = "adjacent" ->
            (Has(c.a) /\ Has(c.b)) =>
                /\ meme_table(aff[c.a], aff[c.b])
                /\ Abs(aff[c.a].siege - aff[c.b].siege) = 1
      [] c.type = "forbid_table" ->
            \A n \in DOMAIN aff : ~(aff[n].x = c.x /\ aff[n].y = c.y)
      [] c.type = "forbid_seat" ->
            \A n \in DOMAIN aff :
                ~(aff[n].x = c.x /\ aff[n].y = c.y /\ aff[n].siege = c.seat)

\* ------------------------------------------------- sequences used as lists

\* list.index: position of the first student of that name
IndexOf(eleves, nom) ==
    CHOOSE i \in DOMAIN eleves :
        /\ eleves[i].nom = nom
        /\ \A j \in DOMAIN eleves : eleves[j].nom = nom => i <= j

\* lst[:k] as a set, k >= 0
FirstK(lst, k) == { lst[i] : i \in 1..Min2(k, Len(lst)) }

\* lst[-k:] as a set, k >= 1
LastK(lst, k) == { lst[i] : i \in Max2(1, Len(lst) - k + 1)..Len(lst) }

RECURSIVE SortedByKey(_, _)
\* sorted(S, key=key) for a set S of integers listed in increasing order:
\* the sort is stable, so ties keep the increasing order
SortedByKey(S, key) ==
    IF S = {} THEN << >>
    ELSE LET m == CHOOSE a \in S :
                    \A b \in S : key[a] < key[b] \/ (key[a] = key[b] /\ a <= b)
         IN <<m>> \o SortedByKey(S \ {m}, key)

\* ------------------------------------------------------------ sanity check

\* A sanity check whose collision test compares the seats of different
\* students only
sanity_check_autres_eleves(schema, eleves, contraintes) ==
    LET total_seats == Cardinality(toutes_les_places(schema))
        exact == { i \in DOMAIN contraintes : contraintes[i].type = "exact_seat" }
        forb_tables == { <<contraintes[i].x, contraintes[i].y>> :
                           i \in { j \in DOMAIN contraintes :
                                     contraintes[j].type = "forbid_table" } }
    IN \/ Len(eleves) > total_seats
       \/ \E i, j \in exact : /\ i < j /\ contraintes[i].ou = contraintes[j].ou
                               /\ contraintes[i].eleve # contraintes[j].eleve
       \/ \E i \in exact : <<contraintes[i].ou.x, contraintes[i].ou.y>> \in forb_tables

\* SolveurCPSAT._sanity_check: TRUE when it raises ValueError
sanity_check_raises(schema, eleves, contraintes) ==
    LET total_seats == Cardinality(toutes_les_places(schema))
        exact == { i \in DOMAIN contraintes : contraintes[i].type = "exact_seat" }
        forb_tables == { <<contraintes[i].x, contraintes[i].y>> :
                           i \in { j \in DOMAIN contraintes :
                                     contraintes[j].type = "forbid_table" } }
    IN \/ Len(eleves) > total_seats
       \/ \E i, j \in exact : i < j /\ contraintes[i].ou = contraintes[j].ou
       \/ \E i \in exact : <<contraintes[i].ou.x, contraintes[i].ou.y>> \in forb_tables

\* ------------------------------------------------------------------ domains

\* The seat ids of a FrontRows / BackRows constraint were the row map never
\* consulted
rows_ids_allowed_sans_carte(c, seats, geom, row_order_ui, row_map_ui) ==
    LET all_ids == DOMAIN seats
        is_front == c.type = "front_rows"
        k == c.k
        use_ui_map == FALSE
        use_ui_order == row_order_ui # << >>
        use_px_geom == geom # << >>
        vals == { row_map_ui[tk] : tk \in DOMAIN row_map_ui }
        nb_vis_rows == 1 + SetMax(vals, 0)
        R == IF nb_vis_rows # 0 THEN nb_vis_rows ELSE Cardinality(vals)
        ys == { seats[i].y : i \in all_ids }
        rows_grid == SortedByKey(ys, [yy \in ys |-> yy])
        \* py of the first seat (s = 0) of each table, by row
        row_py == [yy \in ys |-> { seats[i].py : i \in { j \in all_ids :
                                        seats[j].y = yy /\ seats[j].s = 0 } }]
        px_front == SortedByKey(ys, [yy \in ys |-> SetMin(row_py[yy], 0)])
        px_back == SortedByKey(ys, [yy \in ys |-> SetMax(row_py[yy], 0)])
        OfRows(allowed_y) == { i \in all_ids : seats[i].y \in allowed_y }
    IN IF use_ui_map THEN
           IF R <= 0 THEN all_ids
           ELSE LET allowed_vis == IF is_front THEN 0..(Min2(k, R) - 1)
                                   ELSE Max2(0, R - k)..(R - 1)
                    allowed_tables == { tk \in DOMAIN row_map_ui :
                                          row_map_ui[tk] \in allowed_vis }
                IN { i \in all_ids : table_key(seats[i]) \in allowed_tables }
       ELSE IF use_ui_order THEN
           OfRows(IF is_front THEN FirstK(row_order_ui, k) ELSE LastK(row_order_ui, k))
       ELSE IF use_px_geom /\ c.metric = "px" /\ ys # {} THEN
           OfRows(IF is_front THEN FirstK(px_front, k) ELSE LastK(px_back, k))
       ELSE
           OfRows(IF is_front THEN FirstK(rows_grid, k) ELSE LastK(rows_grid, k))

\* The seat ids a FrontRows / BackRows constraint allows, by the first
\* applicable variant: row_map_ui, row_order_ui, pixel geometry, grid.
rows_ids_allowed(c, seats, geom, row_order_ui, row_map_ui) ==
    LET all_ids == DOMAIN seats
        is_front == c.type = "front_rows"
        k == c.k
        use_ui_map == DOMAIN row_map_ui # {}
        use_ui_order == row_order_ui # << >>
        use_px_geom == geom # << >>
        vals == { row_map_ui[tk] : tk \in DOMAIN row_map_ui }
        nb_vis_rows == 1 + SetMax(vals, 0)
        R == IF nb_vis_rows # 0 THEN nb_vis_rows ELSE Cardinality(vals)
        ys == { seats[i].y : i \in all_ids }
        rows_grid == SortedByKey(ys, [yy \in ys |-> yy])
        \* py of the first seat (s = 0) of each table, by row
        row_py == [yy \in ys |-> { seats[i].py : i \in { j \in all_ids :
                                        seats[j].y = yy /\ seats[j].s = 0 } }]
        px_front == SortedByKey(ys, [yy \in ys |-> SetMin(row_py[yy], 0)])
        px_back == SortedByKey(ys, [yy \in ys |-> SetMax(row_py[yy], 0)])
        OfRows(allowed_y) == { i \in all_ids : seats[i].y \in allowed_y }
    IN IF use_ui_map THEN
           IF R <= 0 THEN all_ids
           ELSE LET allowed_vis == IF is_front THEN 0..(Min2(k, R) - 1)
                                   ELSE Max2(0, R - k)..(R - 1)
                    allowed_tables == { tk \in DOMAIN row_map_ui :
                                          row_map_ui[tk] \in allowed_vis }
                IN { i \in all_ids : table_key(seats[i]) \in allowed_tables }
       ELSE IF use_ui_order THEN
           OfRows(IF is_front THEN FirstK(row_order_ui, k) ELSE LastK(row_order_ui, k))
       ELSE IF use_px_geom /\ c.metric = "px" /\ ys # {} THEN
           OfRows(IF is_front THEN FirstK(px_front, k) ELSE LastK(px_back, k))
       ELSE
           OfRows(IF is_front THEN FirstK(rows_grid, k) ELSE LastK(rows_grid, k))

\* The seat ids one constraint leaves to the student of index e
\* (all of them when the constraint does not filter for that student).
ids_left_by(c, e, schema, eleves, seats, geom, row_order_ui, row_map_ui) ==
    LET all_ids == DOMAIN seats
        imp == implique(c)
        targeted == IF imp = << >> THEN TRUE
                    ELSE \E n \in DOMAIN imp : IndexOf(eleves, imp[n]) = e
    IN IF ~targeted THEN all_ids
       ELSE IF c.type \in {"front_rows", "back_rows"}
            THEN rows_ids_allowed(c, seats, geom, row_order_ui, row_map_ui)
            ELSE LET aut == places_autorisees(c, eleves[e].nom, schema)
                 IN IF aut = << >> THEN all_ids
                    ELSE { seat_index_of(p, seats) : p \in aut[1] }

\* SolveurCPSAT._compute_allowed_domains raises KeyError when a position a
\* constraint allows is not in the seat inventory (_seat_index_of).
compute_allowed_domains_raises(schema, eleves, contraintes, seats) ==
    \E i \in DOMAIN contraintes :
        LET c == contraintes[i] IN
        /\ c.type \notin {"front_rows", "back_rows"}
        /\ \E e \in DOMAIN eleves :
              /\ implique(c) = << >> \/ \E n \in DOMAIN implique(c) :
                                           IndexOf(eleves, implique(c)[n]) = e
              /\ LET aut == places_autorisees(c, eleves[e].nom, schema)
                 IN aut # << >> /\ \E p \in aut[1] : seat_index_of(p, seats) = -1

\* SolveurCPSAT._compute_allowed_domains: every student starts with all
\* seats and each constraint intersects the domains of its targets.
compute_allowed_domains(schema, eleves, contraintes, seats, geom, row_order_ui, row_map_ui) ==
    [e \in DOMAIN eleves |->
        { i \in DOMAIN seats :
            \A n \in DOMAIN contraintes :
                i \in ids_left_by(contraintes[n], e, schema, eleves, seats,
                                  geom, row_order_ui, row_map_ui) }]

\* SolveurCPSAT._apply_exact_seats raises KeyError when an ExactSeat position
\* is not in the seat inventory.
apply_exact_seats_raises(contraintes, seats) ==
    \E n \in DOMAIN contraintes :
        /\ contraintes[n].type = "exact_seat"
        /\ seat_index_of(contraintes[n].ou, seats) = -1

\* SolveurCPSAT._apply_exact_seats: each ExactSeat intersects its student's
\* domain with the one seat id
apply_exact_seats(contraintes, eleves, seats, allowed_by_e) ==
    [e \in DOMAIN eleves |->
        { i \in allowed_by_e[e] :
            \A n \in DOMAIN contraintes :
                (contraintes[n].type = "exact_seat"
                    /\ IndexOf(eleves, contraintes[n].eleve) = e)
                => i = seat_index_of(contraintes[n].ou, seats) }]

\* ---------------------------------------------------------------- the model

\* An assignment of the model is the function x: student index -> seat index
\* with x[e] = i standing for the Boolean x[e][i] = 1. "Exactly one seat per
\* student" (the sum over i of x[e][i] is 1) is what makes it a function.

\* occ[i]: some student sits on seat i
occ(x, i) == \E e \in DOMAIN x : x[e] = i

\* neighbors_of[i]: the seats sharing an adjacency edge with seat i
neighbors_of(edges, i) ==
    { j \in { ed[2] : ed \in edges } \cup { ed[1] : ed \in edges } :
        <<i, j>> \in edges \/ <<j, i>> \in edges }

\* seats_by_table[tk]
seats_by_table(seats, tk) == { i \in DOMAIN seats : table_key(seats[i]) = tk }

\* The model without its domain block
DomainsOmis(x, allowed_by_e) == TRUE

\* The domain block skipping a student whose domain is empty instead of
\* posting the unsatisfiable sum
DomainsSansVide(x, allowed_by_e) ==
    \A e \in DOMAIN x : allowed_by_e[e] = {} \/ x[e] \in allowed_by_e[e]

\* Domain block of _build_model: an empty domain posts sum(x[e]) == -1,
\* which no assignment satisfies; otherwise the seats outside it are 0.
DomainsHold(x, allowed_by_e) ==
    \A e \in DOMAIN x : allowed_by_e[e] # {} /\ x[e] \in allowed_by_e[e]

\* The model without the constraint "at most one student per seat"
SeatsDistinctOmis(x) == TRUE

\* At most one student per seat
SeatsDistinct(x) == \A e1, e2 \in DOMAIN x : e1 # e2 => x[e1] # x[e2]

\* use_px of a FarApart constraint: its attribute en_pixels, when it has
\* one, or its metric "px"
use_px(c) == ("en_pixels" \in DOMAIN c /\ c.en_pixels) \/ c.metric = "px"

\* The encoding of one constraint in _build_model (TRUE for the kinds that
\* are encoded through the domains only).
Encoded(c, x, eleves, seats, edges) ==
    LET S == DOMAIN seats
        E == DOMAIN x
        tables == { table_key(seats[i]) : i \in S }
    IN
    CASE c.type = "same_table" ->
            LET a == IndexOf(eleves, c.a)
                b == IndexOf(eleves, c.b)
            IN table_key(seats[x[a]]) = table_key(seats[x[b]])
      [] c.type = "far_apart" ->
            LET a == IndexOf(eleves, c.a)
                b == IndexOf(eleves, c.b)
                i == x[a]
                j == x[b]
                dij == IF use_px(c)
                       THEN Abs(seats[i].px - seats[j].px) + Abs(seats[i].py - seats[j].py)
                       ELSE Abs(seats[i].x - seats[j].x) + Abs(seats[i].y - seats[j].y)
            IN ~(dij < c.d)
      [] c.type = "adjacent" ->
            LET a == IndexOf(eleves, c.a)
                b == IndexOf(eleves, c.b)
            IN x[a] # x[b] /\ (<<x[a], x[b]>> \in edges \/ <<x[b], x[a]>> \in edges)
      [] c.type = "solo_table" ->
            LET a == IndexOf(eleves, c.eleve)
            IN \A tk \in tables :
                  x[a] \in seats_by_table(seats, tk) =>
                      \A e \in E : e # a => x[e] \notin seats_by_table(seats, tk)
      [] c.type = "no_adjacent" ->
            LET a == IndexOf(eleves, c.eleve)
            IN \A i \in S :
                  (neighbors_of(edges, i) # {} /\ x[a] = i) =>
                      \A e \in E : e # a => x[e] \notin neighbors_of(edges, i)
      [] c.type = "empty_neighbor" ->
            LET a == IndexOf(eleves, c.eleve)
                N(i) == neighbors_of(edges, i)
            IN /\ \A i \in S :
                     N(i) # {} =>
                        (IF x[a] = i THEN 1 ELSE 0)
                          + Cardinality({ j \in N(i) : occ(x, j) }) <= Cardinality(N(i))
               /\ \A tk \in tables :
                     LET T == seats_by_table(seats, tk)
                     IN Cardinality({ i \in T : occ(x, i) })
                          + (IF x[a] \in T THEN 1 ELSE 0) <= Cardinality(T)
      [] OTHER -> TRUE

\* sumY of an assignment: the sum of the py of the seats taken
sumY(x, seats) == SumOver([e \in DOMAIN x |-> seats[x[e]].py], DOMAIN x)

\* The declared range of the variable sumY: 0 .. max(0, E * max_py)
SumYInRange(x, seats) ==
    LET max_py == SetMax({ seats[i].py : i \in DOMAIN seats }, 0)
    IN sumY(x, seats) \in 0..Max2(0, Len(x) * max_py)

\* has_neighbor[i]: some adjacency pair at seat i has both seats occupied
has_neighbor(x, edges, i) ==
    \E j \in neighbors_of(edges, i) : occ(x, i) /\ occ(x, j)

\* nb_isoles: the number of occupied seats without an occupied neighbour
nb_isoles(x, seats, edges) ==
    Cardinality({ i \in DOMAIN seats : occ(x, i) /\ ~has_neighbor(x, edges, i) })

\* occ[i] as the 0/1 value of the model's variable
occ01(x, i) == IF occ(x, i) THEN 1 ELSE 0

\* The values the Booleans pair_used can take with an assignment x: for
\* each edge (ii, jj), v <= occ[ii], v <= occ[jj], v >= occ[ii] + occ[jj] - 1
pair_used_possibles(x, edges) ==
    { v \in [edges -> {0, 1}] :
        \A ed \in edges :
            /\ v[ed] <= occ01(x, ed[1])
            /\ v[ed] <= occ01(x, ed[2])
            /\ v[ed] >= occ01(x, ed[1]) + occ01(x, ed[2]) - 1 }

\* The edges incident to seat i
incident(edges, i) == { ed \in edges : ed[1] = i \/ ed[2] = i }

\* The values the Booleans has_neighbor can take with the values v of
\* pair_used: 0 on a seat without neighbour, else h <= sum(incident) and
\* h >= each incident pair
has_neighbor_possibles(v, seats, edges) ==
    { h \in [DOMAIN seats -> {0, 1}] :
        \A i \in DOMAIN seats :
            IF neighbors_of(edges, i) = {} THEN h[i] = 0
            ELSE /\ h[i] <= SumOver(v, incident(edges, i))
                 /\ \A ed \in incident(edges, i) : h[i] >= v[ed] }

\* The lower bound of iso left out
iso_possibles_sans_minorant(x, h, seats) ==
    { s \in [DOMAIN seats -> {0, 1}] :
        \A i \in DOMAIN seats : s[i] <= occ01(x, i) /\ s[i] + h[i] <= 1 }

\* The values the Booleans iso can take with an assignment x and the
\* values h of has_neighbor: iso <= occ, iso + has_neighbor <= 1,
\* iso >= occ - has_neighbor
iso_possibles(x, h, seats) ==
    { s \in [DOMAIN seats -> {0, 1}] :
        \A i \in DOMAIN seats :
            /\ s[i] <= occ01(x, i)
            /\ s[i] + h[i] <= 1
            /\ s[i] >= occ01(x, i) - h[i] }

RECURSIVE strip(_)
\* str.strip on a sequence of one-character strings (the blank is " ")
strip(g) ==
    IF g = << >> THEN g
    ELSE IF Head(g) = " " THEN strip(Tail(g))
    ELSE IF g[Len(g)] = " " THEN strip(SubSeq(g, 1, Len(g) - 1))
    ELSE g

\* str.lower on one character, for the letters the model uses
lower(ch) ==
    CASE ch = "F" -> "f"
      [] ch = "M" -> "m"
      [] ch = "G" -> "g"
      [] OTHER -> ch

\* SolveurCPSAT._genre_code: "f", "m" or "" (None)
genre_code(g) ==
    IF g = << >> THEN ""
    ELSE LET gg == strip(g)
         IN IF gg = << >> THEN ""
            ELSE IF lower(Head(gg)) = "f" THEN "f"
            ELSE IF lower(Head(gg)) \in {"m", "g"} THEN "m"
            ELSE ""

\* nb_same: the adjacency pairs whose two seats hold two girls (pairF) or
\* two boys (pairM)
nb_same(x, eleves, edges) ==
    LET occ_g(i, code) == \E e \in DOMAIN x : x[e] = i /\ genre_code(eleves[e].genre) = code
    IN Cardinality({ ed \in edges : occ_g(ed[1], "f") /\ occ_g(ed[2], "f") })
       + Cardinality({ ed \in edges : occ_g(ed[1], "m") /\ occ_g(ed[2], "m") })

\* SolveurCPSAT._build_model: the assignments satisfying every hard
\* constraint of the model
build_model(eleves, seats, allowed_by_e, contraintes, edges) ==
    { x \in [DOMAIN eleves -> DOMAIN seats] :
        /\ DomainsHold(x, allowed_by_e)
        /\ SeatsDistinct(x)
        /\ \A n \in DOMAIN contraintes : Encoded(contraintes[n], x, eleves, seats, edges)
        /\ SumYInRange(x, seats) }

\* ------------------------------------------------ reconstruction, validator

\* The reconstruction loops of resoudre: the Position of the seat each
\* student took, keyed by student (a later student of an equal name
\* overwrites an earlier one, as in a dict).
reconstruction(x, eleves, seats) ==
    [n \in { eleves[e].nom : e \in DOMAIN eleves } |->
        LET e == CHOOSE e1 \in DOMAIN eleves :
                    /\ eleves[e1].nom = n
                    /\ \A e2 \in DOMAIN eleves : eleves[e2].nom = n => e2 <= e1
            st == seats[x[e]]
        IN [x |-> st.x, y |-> st.y, siege |-> st.s]]

\* _pxpy were the offsets of the tables left out
pxpy_sans_decalage(p, geom, offsets) ==
    IF geom = << >> THEN <<p.x, p.y>>
    ELSE << p.x * geom[1].table_pitch_x + geom[1].seat_offset_x
              + p.siege * geom[1].seat_pitch_x,
            p.y * geom[1].table_pitch_y + geom[1].seat_offset_y >>

\* _pxpy of valider_final
pxpy(p, geom, offsets) ==
    IF geom = << >> THEN <<p.x, p.y>>
    ELSE LET off == IF <<p.x, p.y>> \in DOMAIN offsets
                    THEN offsets[<<p.x, p.y>>] ELSE <<0, 0>>
         IN << p.x * geom[1].table_pitch_x + off[1] + geom[1].seat_offset_x
                 + p.siege * geom[1].seat_pitch_x,
               p.y * geom[1].table_pitch_y + off[2] + geom[1].seat_offset_y >>

\* SolveurCPSAT.valider_final(salle, affectation, contraintes); ordre is the
\* insertion order of the affectation's keys (the working roster).
valider_final(aff, ordre, contraintes, geom, offsets) ==
    LET Has(n) == n \in DOMAIN aff
        \* by_xy[(x, y)]: seat number -> the last student inserted there
        SeatsTaken(tk) == { aff[n].siege : n \in { m \in DOMAIN aff :
                                                     <<aff[m].x, aff[m].y>> = tk } }
        At(tk, sg) ==
            LET cands == { e \in DOMAIN ordre :
                             /\ Has(ordre[e].nom)
                             /\ <<aff[ordre[e].nom].x, aff[ordre[e].nom].y>> = tk
                             /\ aff[ordre[e].nom].siege = sg }
            IN ordre[SetMax(cands, 0)].nom
        Ok(c) ==
            CASE c.type = "solo_table" ->
                    Has(c.eleve) =>
                        LET p == aff[c.eleve]
                            tk == <<p.x, p.y>>
                        IN ~\E sg \in SeatsTaken(tk) : ~EstLEleve(c, At(tk, sg))
              [] c.type = "no_adjacent" ->
                    Has(c.eleve) =>
                        LET p == aff[c.eleve]
                            tk == <<p.x, p.y>>
                        IN ~\E sg \in {p.siege - 1, p.siege + 1} :
                              sg \in SeatsTaken(tk) /\ ~EstLEleve(c, At(tk, sg))
              [] c.type = "empty_neighbor" ->
                    Has(c.eleve) =>
                        LET p == aff[c.eleve]
                            tk == <<p.x, p.y>>
                            valid_neighbors ==
                                { sg \in {p.siege - 1, p.siege + 1} :
                                    sg \in 0..(SetMax(SeatsTaken(tk), -1) + 1) }
                        IN valid_neighbors = {}
                             \/ ~(\A sg \in valid_neighbors : sg \in SeatsTaken(tk))
              [] c.type = "same_table" ->
                    Has(c.a) /\ Has(c.b) /\ meme_table(aff[c.a], aff[c.b])
              [] c.type = "adjacent" ->
                    /\ Has(c.a) /\ Has(c.b)
                    /\ meme_table(aff[c.a], aff[c.b])
                    /\ Abs(aff[c.a].siege - aff[c.b].siege) = 1
              [] c.type = "far_apart" ->
                    (Has(c.a) /\ Has(c.b)) =>
                        LET pa == aff[c.a]
                            pb == aff[c.b]
                            dij == IF use_px(c) /\ geom # << >>
                                   THEN Abs(pxpy(pa, geom, offsets)[1] - pxpy(pb, geom, offsets)[1])
                                      + Abs(pxpy(pa, geom, offsets)[2] - pxpy(pb, geom, offsets)[2])
                                   ELSE Abs(pa.x - pb.x) + Abs(pa.y - pb.y)
                        IN ~(dij < c.d)
              [] OTHER -> TRUE
    IN \A n \in DOMAIN contraintes : Ok(contraintes[n])

\* ---------------------------------------------------------------- the engine

\* CpSolver.Solve on a model whose solutions are F, for an objective whose
\* optimal solutions are Best, with or without a time limit: the pairs
\* <<status, solution>> the call can end with. Without a limit the search
\* runs to a proof (OPTIMAL or INFEASIBLE); with one it can also stop on an
\* incumbent (FEASIBLE) or on nothing (UNKNOWN).
Solve(F, Best, timed) ==
    { <<"OPTIMAL", x>> : x \in Best }
      \cup (IF F = {} THEN { <<"INFEASIBLE", << >> >> } ELSE {})
      \cup (IF timed THEN { <<"FEASIBLE", x>> : x \in F } \cup { <<"UNKNOWN", << >> >> }
            ELSE {})

\* Durations are counted in twelfths of a millisecond, so that a budget in
\* milliseconds divides exactly by three and by four passes.
DouziemesParMs == 3 * 4

\* n_passes = 3 + (1 if self.tiebreak_random else 0)
n_passes(tiebreak) == 3 + (IF tiebreak THEN 1 ELSE 0)

\* per_pass_s: Optional, the budget divided by n_passes when the budget is
\* a positive number
per_pass_s(budget, tiebreak) ==
    IF budget # << >> /\ budget[1] > 0
    THEN <<(DouziemesParMs * budget[1]) \div n_passes(tiebreak)>>
    ELSE << >>

\* _make_solver without the floor of a tenth of a second
max_time_sans_plancher(time_limit_s) == time_limit_s

\* _make_solver: the max_time_in_seconds the solver of a pass gets,
\* max(0.1, time_limit_s), Optional as the limit is
max_time_in_seconds(time_limit_s) ==
    IF time_limit_s = << >> THEN << >>
    ELSE <<Max2(100 * DouziemesParMs, time_limit_s[1])>>

\* A test of the status that only sets INFEASIBLE apart
SolvedSaufInfaisable(status) == status # "INFEASIBLE"

\* status in (cp_model.OPTIMAL, cp_model.FEASIBLE)
Solved(status) == status \in {"OPTIMAL", "FEASIBLE"}

\* The solutions of F maximising / minimising an integer measure
\* The first draws randrange(1, 1_000_000) of random.Random(graine), for
\* the seeds 0 and 1
tirages(graine) ==
    CASE graine = 0 -> <<885441, 403959, 794773, 933489, 441002, 42451, 271494,
                         536111, 509533, 424605, 962839, 821873>>
      [] graine = 1 -> <<140892, 596854, 888599, 841236, 800876, 66173, 267460,
                         123647, 519502, 797927, 471326, 495186>>

\* The weights of pass 4 were one generator made before the loops: the
\* weight of student e (from 1) on seat i (from 0) of S seats is the next draw
weights_d_un_seul_generateur(graine, e, i, S) == tirages(graine)[(e - 1) * S + i + 1]

\* weights[(e, i)] = random.Random(self.seed).randrange(1, 1_000_000): the
\* first draw of a generator made for this weight
weights(graine, e, i, S) == tirages(graine)[1]

ArgMax(F, m(_)) == { x \in F : \A z \in F : m(z) <= m(x) }

ArgMin(F, m(_)) == { x \in F : \A z \in F : m(x) <= m(z) }

\* ------------------------------------------------- wire format of the UI

\* A seat key of the wire is the string "x,y,s", held as a sequence of
\* one-character strings. An operation that can raise returns a record
\* [r |-> "ok", v |-> value], [r |-> "raise", exc |-> exception class] or,
\* for a descriptor the translator passes over, [r |-> "skip"].
Ok(v) == [r |-> "ok", v |-> v]

Raise(exc) == [r |-> "raise", exc |-> exc]

Skip == [r |-> "skip"]

Chiffres == <<"0", "1", "2", "3", "4", "5", "6", "7", "8", "9">>

ValeurChiffre(ch) == (CHOOSE i \in DOMAIN Chiffres : Chiffres[i] = ch) - 1

RECURSIVE ValeurDecimale(_)
\* the value of a sequence of digits
ValeurDecimale(t) ==
    IF t = << >> THEN 0
    ELSE 10 * ValeurDecimale(SubSeq(t, 1, Len(t) - 1)) + ValeurChiffre(t[Len(t)])

\* int(tt) for a string without blanks around it: anything else than digits
\* raises ValueError
int_digits(tt) ==
    IF tt # << >> /\ \A i \in DOMAIN tt : \E j \in DOMAIN Chiffres : Chiffres[j] = tt[i]
    THEN Ok(ValeurDecimale(tt))
    ELSE Raise("ValueError")

\* int(t) for a string t: blanks around the digits are ignored
int_str(t) == int_digits(strip(t))

RECURSIVE split(_, _)
\* str.split(sep): the sequence of the pieces between the separators
split(k, sep) ==
    IF \A i \in DOMAIN k : k[i] # sep THEN <<k>>
    ELSE LET i == CHOOSE j \in DOMAIN k : k[j] = sep /\ \A l \in 1..(j - 1) : k[l] # sep
         IN <<SubSeq(k, 1, i - 1)>> \o split(SubSeq(k, i + 1, Len(k)), sep)

\* x_str, y_str, s_str = pieces; return int(x_str), int(y_str), int(s_str)
key_ints(n) ==
    IF Len(n) # 3 \/ \E i \in DOMAIN n : n[i].r = "raise" THEN Raise("ValueError")
    ELSE Ok(<<n[1].v, n[2].v, n[3].v>>)

\* the int of every piece of a split key
key_pieces(t) == key_ints([i \in DOMAIN t |-> int_str(t[i])])

\* fabrique_ui._key_forbid: (x, y, s) of the key "x,y,s"; the unpacking of
\* another number of pieces and the int of a non-number raise ValueError
key_forbid(k) == key_pieces(split(k, ","))

\* ------------------------------------------------------------- registry

\* The translator, the factories and code_machine read the name of a student
\* as the attribute e.nom, and the tags "no_adjacent" and "forbid_seat" as
\* TypeContrainte.NO_ADJACENT and TypeContrainte.SIEGE_INTERDIT (the values
\* contraintes/utils.py gives them); modele/eleve.py has nom as a method and
\* contraintes/types.py lacks the two members. The translation follows the
\* callers: e.nom is the name, and the eleven tags are registered.

\* The eleven wire tags (TypeContrainte values)
TagsConnus == UnaryTypes \cup BinaryTypes \cup {"forbid_table", "forbid_seat"}

\* str(code.get("metric", "grid")).strip().lower() for the spellings used
metric_lower(m) == IF m = "PX" THEN "px" ELSE IF m = "GRID" THEN "grid" ELSE m

\* Contrainte.code_machine: the record a constraint is serialised to
code_machine(c) ==
    CASE c.type \in {"front_rows", "back_rows"} ->
            [type |-> c.type, eleve |-> c.eleve, k |-> c.k]
      [] c.type \in {"solo_table", "empty_neighbor", "no_adjacent"} ->
            [type |-> c.type, eleve |-> c.eleve]
      [] c.type = "exact_seat" ->
            [type |-> c.type, eleve |-> c.eleve, x |-> c.ou.x, y |-> c.ou.y,
             seat |-> c.ou.siege]
      [] c.type = "far_apart" -> [type |-> c.type, a |-> c.a, b |-> c.b, d |-> c.d]
      [] c.type \in {"same_table", "adjacent"} -> [type |-> c.type, a |-> c.a, b |-> c.b]
      [] c.type = "forbid_table" -> [type |-> c.type, x |-> c.x, y |-> c.y]
      [] c.type = "forbid_seat" -> [type |-> c.type, x |-> c.x, y |-> c.y, seat |-> c.seat]

\* contrainte_depuis_code(code, ContexteFabrique(salle, {e.nom: e})): the
\* factory of the tag builds the constraint on the roster's own students.
\* ValueError for an unknown tag, KeyError for a missing field or a name
\* that is not in the roster, AssertionError for k < 1 or d < 1.
contrainte_depuis_code(code, schema, eleves) ==
    LET noms == { eleves[e].nom : e \in DOMAIN eleves }
        Manque(F) == \E f \in F : f \notin DOMAIN code
        metric_raw == IF "metric" \in DOMAIN code THEN metric_lower(code.metric) ELSE "grid"
        en_pixels == IF "en_pixels" \in DOMAIN code THEN code.en_pixels ELSE FALSE
        t == IF "type" \in DOMAIN code THEN code.type ELSE ""
    IN IF t \notin TagsConnus THEN Raise("ValueError")
       ELSE IF t \in {"front_rows", "back_rows"} THEN
            IF Manque({"eleve", "k"}) \/ code.eleve \notin noms THEN Raise("KeyError")
            ELSE IF code.k < 1 THEN Raise("AssertionError")
            ELSE LET m == IF metric_raw \in {"grid", "px"} THEN metric_raw ELSE "grid"
                 IN IF t = "front_rows"
                    THEN Ok(FrontRows(code.eleve, TRUE, code.k, m))
                    ELSE Ok(BackRows(code.eleve, TRUE, code.k, m, max_y(schema)))
       ELSE IF t \in {"solo_table", "empty_neighbor", "no_adjacent"} THEN
            IF Manque({"eleve"}) \/ code.eleve \notin noms THEN Raise("KeyError")
            ELSE Ok([type |-> t, eleve |-> code.eleve, meme_objet |-> TRUE])
       ELSE IF t = "exact_seat" THEN
            IF Manque({"eleve", "x", "y", "seat"}) \/ code.eleve \notin noms
            THEN Raise("KeyError")
            ELSE Ok(ExactSeat(code.eleve, TRUE,
                              [x |-> code.x, y |-> code.y, siege |-> code.seat]))
       ELSE IF t = "far_apart" THEN
            IF Manque({"a", "b", "d"}) \/ code.a \notin noms \/ code.b \notin noms
            THEN Raise("KeyError")
            ELSE IF code.d < 1 THEN Raise("AssertionError")
            ELSE Ok(FarApart(code.a, code.b, code.d,
                             IF en_pixels \/ metric_raw = "px" THEN "px" ELSE "grid"))
       ELSE IF t \in {"same_table", "adjacent"} THEN
            IF Manque({"a", "b"}) \/ code.a \notin noms \/ code.b \notin noms
            THEN Raise("KeyError")
            ELSE Ok([type |-> t, a |-> code.a, b |-> code.b])
       ELSE IF t = "forbid_table" THEN
            IF Manque({"x", "y"}) THEN Raise("KeyError")
            ELSE Ok(ForbidTable(code.x, code.y))
       ELSE IF Manque({"x", "y", "seat"}) THEN Raise("KeyError")
            ELSE Ok(ForbidSeat(code.x, code.y, code.seat))

\* ------------------------------------------------------------ translator

\* The empty dict, and a dict entry kept when its condition holds
Vide == [z \in {} |-> z]

Si(cond, entree) == IF cond THEN entree ELSE Vide

\* fabrique_ui._id2nom_map: student id -> name, the last entry of an id wins
id2nom_map(students) ==
    [sid \in { students[i].id : i \in DOMAIN students } |->
        LET i == CHOOSE j \in DOMAIN students :
                    /\ students[j].id = sid
                    /\ \A l \in DOMAIN students : students[l].id = sid => l <= j
        IN students[i].name]

\* tasks._eleves_from_payload: the roster, sorted by id
eleves_from_payload(students) ==
    LET ordre == SortedByKey(DOMAIN students, [i \in DOMAIN students |-> students[i].id])
    IN [i \in DOMAIN students |->
          [nom |-> students[ordre[i]].name, genre |-> students[ordre[i]].gender]]

\* tasks._order_ui_ids
order_ui_ids(students) ==
    LET ordre == SortedByKey(DOMAIN students, [i \in DOMAIN students |-> students[i].id])
    IN [i \in DOMAIN students |-> students[ordre[i]].id]

\* fabrique_contraintes_ui, lines 53-134: the code dict of one descriptor,
\* Skip where the loop continues, Raise where the reading of a field fails;
\* kf is _key_forbid(c["key"]) when the descriptor has a key
code_ui_kf(c, id2nom, kf) ==
    LET a(f) == f \in DOMAIN c
        typ == IF a("type") THEN c.type ELSE ""
        Nom(sid) == IF sid \in DOMAIN id2nom THEN id2nom[sid] ELSE ""
        Metric == Si(a("metric") /\ c.metric # "", "metric" :> metric_lower(c.metric))
        xys == IF kf.r = "ok" THEN kf.v ELSE << >>
    IN IF typ \in {"_batch_marker_", "_objective_", ""} THEN Skip
       ELSE IF typ \in UnaryTypes THEN
            IF ~(a("eleve") \/ a("a") \/ a("studentId")) THEN Skip
            ELSE LET sid == IF a("eleve") THEN c.eleve
                            ELSE IF a("a") THEN c.a ELSE c.studentId
                 IN IF Nom(sid) = "" THEN Skip
                    ELSE IF typ = "exact_seat" /\ kf.r = "raise" THEN Raise("ValueError")
                    ELSE Ok(("type" :> typ) @@ ("eleve" :> Nom(sid))
                            @@ Si(a("k"), "k" :> c.k)
                            @@ Si(typ \in {"front_rows", "back_rows"}, Metric)
                            @@ Si(typ = "exact_seat",
                                  IF a("key")
                                  THEN ("x" :> xys[1]) @@ ("y" :> xys[2])
                                          @@ ("seat" :> xys[3])
                                  ELSE Si(a("x"), "x" :> c.x) @@ Si(a("y"), "y" :> c.y)
                                         @@ Si(a("seat"), "seat" :> c.seat)
                                         @@ Si(a("s"), "seat" :> c.s)))
       ELSE IF typ \in BinaryTypes THEN
            IF ~(a("a") /\ a("b")) THEN Skip
            ELSE IF Nom(c.a) = "" \/ Nom(c.b) = "" THEN Skip
            ELSE Ok(("type" :> typ) @@ ("a" :> Nom(c.a)) @@ ("b" :> Nom(c.b))
                    @@ Si(a("d"), "d" :> c.d) @@ Metric
                    @@ Si(a("en_pixels"), "en_pixels" :> c.en_pixels))
       ELSE IF typ = "forbid_table" THEN
            IF ~(a("x") /\ a("y")) THEN Raise("KeyError")
            ELSE Ok(("type" :> typ) @@ ("x" :> c.x) @@ ("y" :> c.y))
       ELSE IF typ = "forbid_seat" THEN
            IF a("key")
            THEN IF kf.r = "raise" THEN Raise("ValueError")
                 ELSE Ok(("type" :> typ) @@ ("x" :> xys[1]) @@ ("y" :> xys[2])
                         @@ ("seat" :> xys[3]))
            ELSE IF ~(a("x") /\ a("y")) THEN Raise("KeyError")
            ELSE IF ~(a("seat") \/ a("s")) THEN Raise("TypeError")
            ELSE Ok(("type" :> typ) @@ ("x" :> c.x) @@ ("y" :> c.y)
                    @@ ("seat" :> IF a("seat") THEN c.seat ELSE c.s))
       ELSE Skip

code_ui(c, id2nom) ==
    code_ui_kf(c, id2nom, IF "key" \in DOMAIN c THEN key_forbid(c.key) ELSE Skip)

\* out.append(contrainte_depuis_code(code, ctx)), line 136, for the code the
\* loop body has built: nothing is built for Skip or an exception
construire(code, schema, eleves) ==
    IF code.r = "ok" THEN contrainte_depuis_code(code.v, schema, eleves) ELSE code

\* fabrique_contraintes_ui, lines 52-136, for one descriptor: the constraint
\* appended to out, Skip, or the exception raised
traduire_descripteur(c, id2nom, schema, eleves) ==
    construire(code_ui(c, id2nom), schema, eleves)

RECURSIVE traduire_tous(_, _, _, _, _)
RECURSIVE traduire_suite(_, _, _, _, _, _)
\* fabrique_contraintes_ui, lines 50-136: the descriptors in order, from the
\* output so far; the first exception ends the translation
traduire_tous(out, cs, id2nom, schema, eleves) ==
    IF cs = << >> THEN Ok(out)
    ELSE traduire_suite(out, traduire_descripteur(Head(cs), id2nom, schema, eleves),
                        Tail(cs), id2nom, schema, eleves)

\* the loop after the descriptor whose outcome is t
traduire_suite(out, t, cs, id2nom, schema, eleves) ==
    IF t.r = "raise" THEN t
    ELSE traduire_tous(IF t.r = "ok" THEN Append(out, t.v) ELSE out,
                       cs, id2nom, schema, eleves)

\* The seats that the ForbidSeat constraints of a list name
sieges_deja(out) ==
    { <<out[i].x, out[i].y, out[i].seat>> :
        i \in { j \in DOMAIN out : out[j].type = "forbid_seat" } }

RECURSIVE ajouter_interdits(_, _, _)
RECURSIVE ajouter_interdit(_, _, _, _)
\* fabrique_contraintes_ui, lines 143-148: one ForbidSeat per key that is
\* not in deja, the set computed before the loop
ajouter_interdits(out, keys, deja) ==
    IF keys = << >> THEN Ok(out)
    ELSE ajouter_interdit(out, key_forbid(Head(keys)), Tail(keys), deja)

\* lines 145-148 for the key parsed to xys, then the keys that follow
ajouter_interdit(out, xys, keys, deja) ==
    IF xys.r = "raise" THEN xys
    ELSE ajouter_interdits(
            IF xys.v \in deja THEN out
            ELSE Append(out, ForbidSeat(xys.v[1], xys.v[2], xys.v[3])),
            keys, deja)

\* fabrique_contraintes_ui, lines 138-148, from the result r of the loop
\* over the descriptors: an exception raised there has ended the call
sieges_interdits(r, forbidden_keys) ==
    IF r.r = "raise" THEN r
    ELSE ajouter_interdits(r.v, forbidden_keys, sieges_deja(r.v))

\* The names of the students that the ExactSeat constraints of a list pin
deja_exact(out) ==
    { out[i].eleve : i \in { j \in DOMAIN out : out[j].type = "exact_seat" } }

RECURSIVE ajouter_placements(_, _, _, _, _, _)
RECURSIVE ajouter_placement(_, _, _, _, _, _, _, _)
RECURSIVE ajouter_exact(_, _, _, _, _, _, _)
\* fabrique_contraintes_ui, lines 157-164: placements is the list of the
\* items (key, student id) of the dict, deja the set computed before the loop
ajouter_placements(out, placements, deja, id2nom, schema, eleves) ==
    IF placements = << >> THEN Ok(out)
    ELSE ajouter_placement(out, key_forbid(Head(placements)[1]), Head(placements)[2],
                           Tail(placements), deja, id2nom, schema, eleves)

\* lines 158-164 for the item whose key is parsed to xys and whose student
\* id is sid, then the items that follow
ajouter_placement(out, xys, sid, placements, deja, id2nom, schema, eleves) ==
    IF xys.r = "raise" THEN xys
    ELSE IF sid \notin DOMAIN id2nom \/ id2nom[sid] \in deja
    THEN ajouter_placements(out, placements, deja, id2nom, schema, eleves)
    ELSE ajouter_exact(out,
                       contrainte_depuis_code(
                           [type |-> "exact_seat", eleve |-> id2nom[sid], x |-> xys.v[1],
                            y |-> xys.v[2], seat |-> xys.v[3]], schema, eleves),
                       placements, deja, id2nom, schema, eleves)

\* line 163 for the ExactSeat c the registry has built (or its exception)
ajouter_exact(out, c, placements, deja, id2nom, schema, eleves) ==
    IF c.r = "raise" THEN c
    ELSE ajouter_placements(Append(out, c.v), placements, deja, id2nom, schema, eleves)

\* fabrique_contraintes_ui, lines 150-166, from the result r of the lines
\* before
placements_imposes(r, placements, respecter, id2nom, schema, eleves) ==
    IF r.r = "raise" \/ ~respecter THEN r
    ELSE ajouter_placements(r.v, placements, deja_exact(r.v), id2nom, schema, eleves)

\* fabrique_contraintes_ui: the whole translation
fabrique_contraintes_ui(schema, eleves, students, constraints_ui, forbidden_keys, placements, respecter) ==
    placements_imposes(
        sieges_interdits(
            traduire_tous(<< >>, constraints_ui, id2nom_map(students), schema, eleves),
            forbidden_keys),
        placements, respecter, id2nom_map(students), schema, eleves)

\* ------------------------------------------------------- locked placements

RECURSIVE injecter(_, _, _, _, _)
RECURSIVE injecter_un(_, _, _, _, _, _, _)
\* inject_locked_placements_as_exact_constraints, lines 28-44: one ExactSeat
\* per placement, ValueError for a key that is not "x,y,s", for a placement
\* on a table of forbT or a seat of forbS, for an unknown student id
injecter(contraintes, placements, id2eleve, forbT, forbS) ==
    IF placements = << >> THEN Ok(contraintes)
    ELSE injecter_un(contraintes, key_forbid(Head(placements)[1]), Head(placements)[2],
                     Tail(placements), id2eleve, forbT, forbS)

\* lines 29-44 for the item whose key is parsed to xys and whose student id
\* is sid, then the items that follow
injecter_un(contraintes, xys, sid, placements, id2eleve, forbT, forbS) ==
    IF xys.r = "raise" THEN Raise("ValueError")
    ELSE IF <<xys.v[1], xys.v[2]>> \in forbT THEN Raise("ValueError")
    ELSE IF xys.v \in forbS THEN Raise("ValueError")
    ELSE IF sid \notin DOMAIN id2eleve THEN Raise("ValueError")
    ELSE injecter(Append(contraintes,
                         ExactSeat(id2eleve[sid].nom, TRUE,
                                   [x |-> xys.v[1], y |-> xys.v[2], siege |-> xys.v[3]])),
                  placements, id2eleve, forbT, forbS)

\* inject_locked_placements_as_exact_constraints
inject_locked_placements_as_exact_constraints(respect_existing, placements, id2eleve, contraintes, forbT, forbS) ==
    IF ~respect_existing \/ placements = << >> THEN Ok(contraintes)
    ELSE injecter(contraintes, placements, id2eleve, forbT, forbS)

\* t_solve_plandeclasse, line 372: student id -> Eleve of the roster
id2eleve_map(ids, eleves) ==
    [sid \in { ids[i] : i \in DOMAIN ids } |->
        eleves[CHOOSE i \in DOMAIN ids : ids[i] = sid]]

\* t_solve_plandeclasse, lines 373-378: the placements of the students that
\* no ExactSeat of the list pins yet, none without the lock
placements_filtres(lock, placements, id2eleve, pinned) ==
    IF lock /\ placements # << >>
    THEN SelectSeq(placements,
                   LAMBDA kv : ~(kv[2] \in DOMAIN id2eleve
                                 /\ id2eleve[kv[2]].nom \in pinned))
    ELSE << >>

\* t_solve_plandeclasse, lines 373-385, with the map id2eleve
injection_filtree(lock, placements, id2eleve, contraintes) ==
    inject_locked_placements_as_exact_constraints(
        lock, placements_filtres(lock, placements, id2eleve, deja_exact(contraintes)),
        id2eleve, contraintes, {}, {})

\* t_solve_plandeclasse, lines 371-385: the placements of the students no
\* ExactSeat pins yet are injected; the call passes no forbidden table and
\* no forbidden seat
injection_de_la_tache(lock, placements, students, eleves, contraintes) ==
    injection_filtree(lock, placements, id2eleve_map(order_ui_ids(students), eleves),
                      contraintes)

\* ------------------------------------------------------------------- inputs

\* The rooms: two identical rows of one double table; one row of a single
\* and a double table; an empty front row before a double table.
Schemas == { << <<2>>, <<2>> >>, << <<1, 2>> >>, << <<0>>, <<2>> >> }

\* The gender strings of the rosters (girl, boy written "g", unknown)
Genres == { <<"F">>, <<"g">>, << >> }

Noms == <<"A", "B", "C">>

\* The rosters of n students A, B, ... whose genders are drawn from G
Rosters(n, G) ==
    { [e \in 1..n |-> [nom |-> Noms[e], genre |-> g[e]]] : g \in [1..n -> G] }

\* A position outside the room: one row behind the last
HorsSalle(schema) == [x |-> 0, y |-> Len(schema), siege |-> 0]

\* The constraints that can be put on a room and a roster
Univers(schema, eleves) ==
    LET noms == { eleves[e].nom : e \in DOMAIN eleves }
        places == toutes_les_places(schema)
        paires == { ab \in (DOMAIN eleves) \X (DOMAIN eleves) : ab[1] < ab[2] }
    IN   { FrontRows(n, TRUE, k, "grid") : n \in noms, k \in 1..MaxK }
    \cup { BackRows(n, TRUE, k, "grid", max_y(schema)) : n \in noms, k \in 1..MaxK }
    \cup { SoloTable(n, same) : n \in noms, same \in BOOLEAN }
    \cup { NoAdjacent(n, TRUE) : n \in noms }
    \cup { EmptyNeighbor(n, TRUE) : n \in noms }
    \cup { ExactSeat(n, TRUE, p) : n \in noms, p \in places \cup {HorsSalle(schema)} }
    \cup { FarApart(eleves[ab[1]].nom, eleves[ab[2]].nom, d, "grid") :
             ab \in paires, d \in 1..MaxD }
    \cup { SameTable(eleves[ab[1]].nom, eleves[ab[2]].nom) : ab \in paires }
    \cup { Adjacent(eleves[ab[1]].nom, eleves[ab[2]].nom) : ab \in paires }
    \cup { ForbidTable(tk[1], tk[2]) : tk \in TableKeys(schema) }
    \cup { ForbidSeat(p.x, p.y, p.siege) : p \in places }

RECURSIVE SetToSeq(_)
SetToSeq(S) == IF S = {} THEN << >>
               ELSE LET a == CHOOSE b \in S : TRUE IN <<a>> \o SetToSeq(S \ {a})

\* The constraint lists of at most n constraints of U, one list per multiset
\* (the solver reads a list as a conjunction)
Listes(U, n) ==
    LET u == SetToSeq(U)
    IN UNION { { [i \in 1..len |-> u[idx[i]]] :
                   idx \in { f \in [1..len -> DOMAIN u] :
                               \A i \in 1..(len - 1) : f[i] <= f[i + 1] } } :
               len \in 0..n }

\* SolveurCPSAT.__init__ defaults, which are also the defaults of
\* tasks._parse_options for these fields
Defauts ==
    [prefer_alone |-> TRUE, prefer_mixage |-> TRUE, seed |-> << >>,
     randomize_order |-> FALSE, tiebreak_random |-> TRUE, geom |-> << >>,
     table_offsets |-> << >>, row_order_ui |-> << >>, row_map_ui |-> << >>]

\* Two girls at most: the rosters of the calls that sweep the constraints
Filles == Rosters(0, {<<"F">>}) \cup Rosters(1, {<<"F">>}) \cup Rosters(2, {<<"F">>})

\* First family of calls: the default solver, no budget (the default of
\* resoudre), every list of at most MaxContraintes constraints.
AppelsContraintes ==
    UNION { UNION { { [salle |-> sc, eleves |-> el, contraintes |-> cs,
                       solveur |-> Defauts, budget_temps_ms |-> << >>] :
                      cs \in Listes(Univers(sc, el), MaxContraintes) } :
                    el \in Filles } :
            sc \in Schemas }

\* Second family: every combination of the preferences and of the
\* tie-break, two students of every gender mix or three girls and boys, no
\* constraint, no budget.
AppelsOptions ==
    { [salle |-> sc, eleves |-> el, contraintes |-> << >>,
       solveur |-> [Defauts EXCEPT !.prefer_alone = pa, !.prefer_mixage = pm,
                                   !.tiebreak_random = tb],
       budget_temps_ms |-> << >>] :
        sc \in Schemas, el \in Rosters(2, Genres) \cup Rosters(3, {<<"F">>, <<"g">>}),
        pa \in BOOLEAN, pm \in BOOLEAN, tb \in BOOLEAN }

\* Third family: the budget tasks._solve passes, one constraint at most.
AppelsBudget ==
    UNION { UNION { { [salle |-> sc, eleves |-> el, contraintes |-> cs,
                       solveur |-> Defauts, budget_temps_ms |-> <<60000>>] :
                      cs \in Listes(Univers(sc, el), 1) } :
                    el \in Filles } :
            sc \in Schemas }

\* Fourth family: the roster shuffled, one constraint at most, no budget.
AppelsMelange ==
    UNION { UNION { { [salle |-> sc, eleves |-> el, contraintes |-> cs,
                       solveur |-> [Defauts EXCEPT !.randomize_order = TRUE],
                       budget_temps_ms |-> << >>] :
                      cs \in Listes(Univers(sc, el), 1) } :
                    el \in Rosters(2, Genres) } :
            sc \in Schemas }

\* Fifth family, scenario S1 at the scale of these rooms: students without
\* gender, no constraint, the default solver and the default budget.
AppelsS1 ==
    { [salle |-> sc, eleves |-> el, contraintes |-> << >>,
       solveur |-> Defauts, budget_temps_ms |-> <<60000>>] :
        sc \in Schemas, el \in Rosters(1, {<< >>}) \cup Rosters(2, {<< >>}) }

Appels ==
    AppelsContraintes \cup AppelsOptions \cup AppelsBudget \cup AppelsMelange
        \cup AppelsS1

\* The budgets of the calls that sweep the time limits, in milliseconds:
\* none, and positive ones on both sides of three and of four tenths of a
\* second
Budgets == { 0, 1, 100, 299, 300, 400, 401, 60000 }

\* Sixth family: every budget with every combination of the preferences and
\* of the tie-break, two students, no constraint.
AppelsBudgets ==
    { [salle |-> sc, eleves |-> el, contraintes |-> << >>,
       solveur |-> [Defauts EXCEPT !.prefer_alone = pa, !.prefer_mixage = pm,
                                   !.tiebreak_random = tb],
       budget_temps_ms |-> <<b>>] :
        sc \in Schemas, el \in Rosters(2, {<<"F">>, <<"g">>}),
        pa \in BOOLEAN, pm \in BOOLEAN, tb \in BOOLEAN, b \in Budgets }

\* ----------------------------------------------- inputs with a geometry

\* GeomPixels(table_pitch_x, table_pitch_y, seat_pitch_x, seat_offset_x,
\* seat_offset_y)
GeomPixels(tpx, tpy, spx, sox, soy) ==
    [table_pitch_x |-> tpx, table_pitch_y |-> tpy, seat_pitch_x |-> spx,
     seat_offset_x |-> sox, seat_offset_y |-> soy]

\* A room of two rows, the first one of two tables
SchemaGeo == << <<1, 1>>, <<2>> >>

\* No geometry, one whose rows go down the screen, one whose rows go up
Geometries == { << >>, <<GeomPixels(2, 2, 1, 0, 0)>>, <<GeomPixels(2, -2, 1, 0, 0)>> }

\* No table moved, the first table moved behind the second row, the table
\* of the second row moved before the first row
Decalages == { << >>, <<0, 0>> :> <<0, 3>>, <<0, 1>> :> <<1, -3>> }

\* No visual order, the rows front to back, the rows back to front
OrdresVisuels == { << >>, <<0, 1>>, <<1, 0>> }

\* The row maps of a room: none, and every map of some of its tables to
\* the visual rows 0, 1, 2
CartesVisuelles(schema) ==
    UNION { [T -> 0..2] : T \in SUBSET TableKeys(schema) }

\* The geometries with the offsets that go with them
Pixels ==
    { <<g, o>> \in Geometries \X Decalages : g = << >> => o = << >> }

\* FrontRows and BackRows of student A, k rows, both metrics
Rangees(schema) ==
    UNION { { FrontRows("A", TRUE, k, m), BackRows("A", TRUE, k, m, max_y(schema)) } :
            k \in 1..2, m \in {"grid", "px"} }

\* Seventh family: one FrontRows or BackRows constraint under every row
\* map, visual order and geometry.
AppelsRangees ==
    { [salle |-> SchemaGeo, eleves |-> el, contraintes |-> <<c>>,
       solveur |-> [Defauts EXCEPT !.geom = go[1], !.table_offsets = go[2],
                                   !.row_order_ui = ro, !.row_map_ui = rm],
       budget_temps_ms |-> << >>] :
        el \in Rosters(2, {<<"F">>}), c \in Rangees(SchemaGeo),
        go \in Pixels, ro \in OrdresVisuels, rm \in CartesVisuelles(SchemaGeo) }

\* FarApart of A and B: both metrics, and the attribute en_pixels set by
\* hand on a constraint without metric
Eloignements ==
    UNION { { FarApart("A", "B", d, "grid"), FarApart("A", "B", d, "px"),
              FarApart("A", "B", d, "") @@ [en_pixels |-> TRUE] } : d \in 1..3 }

\* Eighth family: no constraint or one FarApart, under every geometry and
\* offsets.
AppelsEloignes ==
    { [salle |-> sc, eleves |-> el, contraintes |-> cs,
       solveur |-> [Defauts EXCEPT !.geom = go[1], !.table_offsets = go[2]],
       budget_temps_ms |-> << >>] :
        sc \in {SchemaGeo, << <<2>>, <<2>> >>}, el \in Rosters(2, {<<"F">>}),
        cs \in {<< >>} \cup { <<c>> : c \in Eloignements }, go \in Pixels }

AppelsGeometrie == AppelsRangees \cup AppelsEloignes

\* --------------------------------------------------------- inputs of the UI

\* The students of the payloads, listed out of the order of their ids
Etudiants ==
    << [id |-> 12, name |-> "B", gender |-> <<"F">>],
       [id |-> 11, name |-> "A", gender |-> <<"g">>] >>

\* The room of the payloads
SchemaUI == << <<2>>, <<2>> >>

\* Seat keys: three seats of the room, one of them written with a blank,
\* and a key that is not "x,y,s"
K000 == <<"0", ",", "0", ",", "0">>

K0b00 == <<"0", ",", " ", "0", ",", "0">>

K011 == <<"0", ",", "1", ",", "1">>

K00 == <<"0", ",", "0">>

\* The wire descriptors, in a list
Descripteurs ==
    << [type |-> "_batch_marker_"],
       [type |-> "bogus", a |-> 11],
       [type |-> "front_rows", a |-> 11, k |-> 1, metric |-> "PX"],
       [type |-> "back_rows", eleve |-> 12, k |-> 1],
       [type |-> "front_rows", a |-> 11],
       [type |-> "front_rows", a |-> 11, k |-> 0],
       [type |-> "solo_table", a |-> 99],
       [type |-> "no_adjacent", studentId |-> 12],
       [type |-> "empty_neighbor"],
       [type |-> "exact_seat", a |-> 11, key |-> K000],
       [type |-> "exact_seat", a |-> 12, x |-> 0, y |-> 1, s |-> 1],
       [type |-> "exact_seat", a |-> 12, key |-> K00],
       [type |-> "far_apart", a |-> 11, b |-> 12, d |-> 1, en_pixels |-> TRUE],
       [type |-> "same_table", a |-> 11, b |-> 99],
       [type |-> "adjacent", a |-> 11],
       [type |-> "forbid_table", x |-> 0, y |-> 0],
       [type |-> "forbid_seat", key |-> K000],
       [type |-> "forbid_seat", x |-> 0, y |-> 0, s |-> 1],
       [type |-> "solo_table", a |-> 11],
       [type |-> "empty_neighbor", a |-> 12],
       [type |-> "same_table", a |-> 11, b |-> 12],
       [type |-> "adjacent", a |-> 12, b |-> 11],
       [type |-> "front_rows", a |-> 12, k |-> 1],
       [type |-> "far_apart", a |-> 12, b |-> 11, d |-> 1] >>

\* The lists of at most n elements of a list u, in every order
Suites(u, n) ==
    UNION { { [i \in 1..len |-> u[f[i]]] : f \in [1..len -> DOMAIN u] } : len \in 0..n }

\* The dicts of at most n items over the list K of keys and the list V of
\* values, as the lists of their items: no key twice
Dicts(K, V, n) ==
    UNION { { [i \in 1..len |-> <<K[f[i]], V[g[i]]>>] :
                f \in { h \in [1..len -> DOMAIN K] :
                          \A i, j \in 1..len : i # j => h[i] # h[j] },
                g \in [1..len -> DOMAIN V] } : len \in 0..n }

\* A payload: what the UI sends, whether placements are locked, and the
\* entry point ("fabrique": fabrique_contraintes_ui is called with the
\* placements; "tache": t_solve_plandeclasse runs with the CP-SAT solver)
Payload(cs, fk, pl, lock, appel) ==
    [students |-> Etudiants, constraints_ui |-> cs, forbidden |-> fk,
     placements |-> pl, lock_placements |-> lock, appel |-> appel]

\* Payloads that sweep the descriptors
PayloadsDescripteurs ==
    { Payload(cs, << >>, << >>, TRUE, "fabrique") : cs \in Suites(Descripteurs, 2) }

\* Payloads that sweep the forbidden keys
PayloadsInterdits ==
    { Payload(cs, fk, << >>, TRUE, "fabrique") :
        cs \in Suites(<<Descripteurs[17], Descripteurs[18]>>, 2),
        fk \in Suites(<<K000, K0b00, K011, K00>>, 2) }

\* Payloads that sweep the placements, for both entry points
PayloadsPlacements ==
    { Payload(cs, fk, pl, lock, appel) :
        cs \in Suites(<<Descripteurs[10], Descripteurs[11], Descripteurs[16],
                        Descripteurs[17]>>, 1),
        fk \in Suites(<<K000>>, 1),
        pl \in Dicts(<<K000, K0b00, K011, K00>>, <<11, 12, 99>>, 2),
        lock \in BOOLEAN,
        appel \in {"fabrique", "tache"} }

Payloads == PayloadsDescripteurs \cup PayloadsInterdits \cup PayloadsPlacements

\* ------------------------------------------------- inputs of the seeded runs

\* The calls with a seed: the seeds 0 and 1, the roster shuffled or not, two
\* girls or three students, one constraint at most, no budget
AppelsGraine ==
    UNION { UNION { { [salle |-> sc, eleves |-> el, contraintes |-> cs,
                       solveur |-> [Defauts EXCEPT !.seed = <<g>>,
                                                   !.randomize_order = ro],
                       budget_temps_ms |-> << >>] :
                      cs \in Listes(Univers(sc, el), 1), g \in {0, 1}, ro \in BOOLEAN } :
                    el \in Rosters(2, {<<"F">>}) } :
            sc \in Schemas }

\* -------------------------------------------------- inputs of the validator

\* The complete assignments of a roster in a room: every student on a seat
\* of the room, no seat twice
Completes(schema, eleves) ==
    { aff \in [{ eleves[e].nom : e \in DOMAIN eleves } -> toutes_les_places(schema)] :
        \A n, m \in DOMAIN aff : n # m => aff[n] # aff[m] }

\* The direct calls of valider_final: two girls, one constraint, a complete
\* assignment
AppelsValidateur ==
    UNION { UNION { { [salle |-> sc, eleves |-> el, contraintes |-> <<c>>,
                       affectation |-> aff] :
                      c \in Univers(sc, el), aff \in Completes(sc, el) } :
                    el \in Rosters(2, {<<"F">>}) } :
            sc \in Schemas }

\* ------------------------------------------------- the backtracking solver

\* Solveur.valider_final of solveurs/base.py, which the backtracking solver
\* inherits: every DoitAvoirVoisinVide student is placed, at a table that
\* holds fewer students than it has seats.
valider_final_de_base(schema, aff, contraintes) ==
    LET capacites == capacite_par_table(schema)
        occupation(cle) == Cardinality({n \in DOMAIN aff : <<aff[n].x, aff[n].y>> = cle})
        cap(cle) == IF cle \in DOMAIN capacites THEN capacites[cle] ELSE 0
    IN \A i \in DOMAIN contraintes :
          contraintes[i].type = "empty_neighbor" =>
             /\ contraintes[i].eleve \in DOMAIN aff
             /\ occupation(<<aff[contraintes[i].eleve].x, aff[contraintes[i].eleve].y>>)
                  < cap(<<aff[contraintes[i].eleve].x, aff[contraintes[i].eleve].y>>)

\* The constraints whose places_autorisees filters the domain of a student:
\* those filed under the student's name in unaires_par_eleve and the
\* global ones, when they return a set.
filtres_du_domaine(nom, schema, contraintes) ==
    { i \in DOMAIN contraintes :
        /\ \/ Len(implique(contraintes[i])) = 0
           \/ Len(implique(contraintes[i])) = 1 /\ implique(contraintes[i])[1] = nom
        /\ places_autorisees(contraintes[i], nom, schema) # << >> }

\* The domain of a student before the shuffle: the places of the room that
\* every filter allows, all of them without a filter.
domaine_initial(nom, schema, contraintes) ==
    { p \in toutes_les_places(schema) :
        \A i \in filtres_du_domaine(nom, schema, contraintes) :
            p \in places_autorisees(contraintes[i], nom, schema)[1] }

\* random.shuffle on the global generator: any order of the domain
random_shuffle(S) ==
    { s \in [1..Cardinality(S) -> S] : \A i, j \in DOMAIN s : i # j => s[i] # s[j] }

\* The rank of a name in the order of str
rang_du_nom(nom) == CHOOSE i \in DOMAIN Noms : Noms[i] = nom

\* sorted(eleves, key=lambda el: (len(domaines[el]), el.nom()))
ordre_mrv(roster, doms) ==
    LET cle == [i \in DOMAIN roster |->
                  Len(doms[roster[i].nom]) * (Len(Noms) + 1) + rang_du_nom(roster[i].nom)]
    IN [j \in DOMAIN roster |-> roster[SortedByKey(DOMAIN roster, cle)[j]]]

\* The constraints placement_coherent evaluates on an assignment: the
\* global ones and those whose students are all placed
instanciees(contraintes, essai) ==
    { i \in DOMAIN contraintes :
        \A k \in DOMAIN implique(contraintes[i]) :
            implique(contraintes[i])[k] \in DOMAIN essai }

\* The first constraint of the list the assignment breaks, 0 when none
premiere_violee(contraintes, essai) ==
    SetMin({ i \in instanciees(contraintes, essai) :
               ~est_satisfaite(contraintes[i], essai) }, 0)

\* placement_coherent without its loop over the constraints
placement_coherent_sans_contraintes(nom, pos, aff, prises, contraintes) ==
    [coherent |-> pos \notin prises, verifications |-> 0]

\* placement_coherent(eleve, pos): whether the seat is free and no
\* instantiated constraint breaks once the student sits there, with the
\* number of est_satisfaite calls it made (it stops at the first failure).
placement_coherent(nom, pos, aff, prises, contraintes) ==
    IF pos \in prises THEN [coherent |-> FALSE, verifications |-> 0]
    ELSE IF premiere_violee(contraintes, (nom :> pos) @@ aff) = 0
    THEN [coherent |-> TRUE,
          verifications |-> Cardinality(instanciees(contraintes, (nom :> pos) @@ aff))]
    ELSE [coherent |-> FALSE,
          verifications |->
              Cardinality({ i \in instanciees(contraintes, (nom :> pos) @@ aff) :
                              i <= premiere_violee(contraintes, (nom :> pos) @@ aff) })]

\* ------------------------------------- inputs of the backtracking solver

\* The calls on one room and one roster with at most n constraints;
\* essais_max is large, or two when there is no constraint.
AppelsSur(sc, el, n) ==
    UNION { { [salle |-> sc, eleves |-> el, contraintes |-> cs, essais_max |-> m] :
                m \in IF cs = << >> THEN {2, 100000} ELSE {100000} } :
            cs \in Listes(Univers(sc, el), n) }

\* Two students in a room of three seats with at most two constraints, or
\* in a room of two rows with at most one; three students in a room of
\* three seats, and two or three students in a room of two seats.
AppelsRetourArriere ==
    UNION { AppelsSur(<< <<1, 2>> >>, el, 2) \cup AppelsSur(<< <<2>>, <<2>> >>, el, 1)
              \cup AppelsSur(<< <<0>>, <<2>> >>, el, 1) : el \in Rosters(2, {<<"F">>}) }
    \cup
    UNION { AppelsSur(<< <<1, 2>> >>, el, 1) \cup AppelsSur(<< <<0>>, <<2>> >>, el, 1) :
              el \in Rosters(3, {<<"F">>}) }

\* -------------------------------------------------------------------- state

VARIABLES
    salle,            \* the room's schema: rows of table capacities
    eleves,           \* the roster
    contraintes,      \* the constraint list
    solveur,          \* the SolveurCPSAT instance (self)
    budget_temps_ms,  \* Optional[int]
    payload,          \* Optional: the UI payload the call comes from
    reconstruites,    \* Optional: the constraints rebuilt from their records
    valide,           \* Optional[bool]: what a direct call of valider_final returned
    premier,          \* Optional: what the first of two runs of resoudre left
    limites,          \* the max_time_in_seconds of the solvers made so far
    essais_max,       \* the essais_max of a call of the backtracking solver
    domaines,         \* its domaines: student name -> shuffled list of Positions
    ordre,            \* its ordre: the students, fewest places first
    pile,             \* its frames of retour_arriere: places each for loop has taken
    utilises,         \* its set of seats in use
    essais, verifications,   \* its counters
    pc,               \* the stage resoudre has reached
    exception,        \* the exception resoudre raised, "" when none
    eleves_work, seats, allowed_by_e, edges_adj,
    status1, status2, status3, status4,   \* "" before the pass has run
    best_iso, best_same, best_sumY,       \* Optional[int]
    x3, x4,           \* Optional: the solutions solver3 and solver4 hold
    affectation,      \* Optional: the assignment that passed valider_final
    resultat          \* Optional[ResultatResolution]: what resoudre returned

vars == <<salle, eleves, contraintes, solveur, budget_temps_ms, payload, reconstruites,
          valide, premier, limites, essais_max, domaines, ordre, pile, utilises, essais,
          verifications, pc, exception,
          eleves_work, seats, allowed_by_e, edges_adj,
          status1, status2, status3, status4, best_iso, best_same, best_sumY,
          x3, x4, affectation, resultat>>

\* What resoudre leaves alone
entrees == <<salle, eleves, contraintes, solveur, budget_temps_ms, payload, reconstruites,
            valide, premier, essais_max, domaines, ordre, pile, utilises, essais,
            verifications>>

\* What the backtracking solver owns
retour_arriere_locaux == <<essais_max, domaines, ordre, pile, utilises, essais, verifications>>

\* The locals of the backtracking solver before it has run
DebutRetourArriere ==
    /\ domaines = << >>
    /\ ordre = << >>
    /\ pile = << >>
    /\ utilises = {}
    /\ essais = 0
    /\ verifications = 0

\* The locals of resoudre before it has run
Debut ==
    /\ exception = ""
    /\ limites = << >>
    /\ eleves_work = << >>
    /\ seats = << >>
    /\ allowed_by_e = << >>
    /\ edges_adj = {}
    /\ status1 = ""
    /\ status2 = ""
    /\ status3 = ""
    /\ status4 = ""
    /\ best_iso = << >>
    /\ best_same = << >>
    /\ best_sumY = << >>
    /\ x3 = << >>
    /\ x4 = << >>
    /\ affectation = << >>
    /\ resultat = << >>

Init ==
    /\ \E a \in Appels :
          /\ salle = a.salle
          /\ eleves = a.eleves
          /\ contraintes = a.contraintes
          /\ solveur = a.solveur
          /\ budget_temps_ms = a.budget_temps_ms
    /\ payload = << >>
    /\ reconstruites = << >>
    /\ valide = << >>
    /\ premier = << >>
    /\ essais_max = 0
    /\ DebutRetourArriere
    /\ pc = "INIT"
    /\ Debut

\* ResultatResolution(affectation=aff, essais=0, verifications=0)
ResultatResolution(aff) == [affectation |-> aff, essais |-> 0, verifications |-> 0]

\* ------------------------------------------------------------------ actions

\* resoudre, line 103: the sanity check passes or raises ValueError
SanityCheck ==
    /\ pc = "INIT"
    /\ IF sanity_check_raises(salle, eleves, contraintes)
       THEN pc' = "RAISED" /\ exception' = "ValueError"
       ELSE pc' = "SANITY_OK" /\ exception' = exception
    /\ UNCHANGED <<entrees, limites, eleves_work, seats, allowed_by_e, edges_adj,
                   status1, status2, status3, status4, best_iso, best_same,
                   best_sumY, x3, x4, affectation, resultat>>

\* rng.shuffle(eleves_work): any order of the roster
Melanges(lst) ==
    { [i \in DOMAIN lst |-> lst[f[i]]] :
        f \in { g \in [DOMAIN lst -> DOMAIN lst] :
                  \A i, j \in DOMAIN lst : i # j => g[i] # g[j] } }

\* random.Random(graine).shuffle of a list of n elements, for the seeds 0
\* and 1 and the lists of at most three elements: the i-th element of the
\* shuffled list is the element of that index in the list
permutation_de_graine(graine, n) ==
    CASE n <= 1 -> [i \in 1..n |-> i]
      [] n = 2 /\ graine = 0 -> <<1, 2>>
      [] n = 2 /\ graine = 1 -> <<2, 1>>
      [] n = 3 /\ graine = 0 -> <<1, 3, 2>>
      [] n = 3 /\ graine = 1 -> <<2, 3, 1>>

\* rng = random.Random(self.seed); rng.shuffle(eleves_work): any order
\* without a seed, the order of the seed with one
shuffle(lst, seed) ==
    IF seed = << >> THEN Melanges(lst)
    ELSE { [i \in DOMAIN lst |-> lst[permutation_de_graine(seed[1], Len(lst))[i]]] }

\* resoudre, lines 105-113: working roster, seat inventory, domains, exact
\* seats, adjacency edges; a position outside the inventory raises KeyError
BuildDomains ==
    /\ pc = "SANITY_OK"
    /\ \E ew \in (IF solveur.randomize_order THEN shuffle(eleves, solveur.seed)
                  ELSE {eleves}) :
          LET st == enumerate_seats(salle, solveur.geom, solveur.table_offsets)
              dom == compute_allowed_domains(salle, ew, contraintes, st, solveur.geom,
                                             solveur.row_order_ui, solveur.row_map_ui)
          IN IF compute_allowed_domains_raises(salle, ew, contraintes, st)
                  \/ apply_exact_seats_raises(contraintes, st)
             THEN /\ pc' = "RAISED"
                  /\ exception' = "KeyError"
                  /\ UNCHANGED <<eleves_work, seats, allowed_by_e, edges_adj>>
             ELSE /\ pc' = "DOMAINS_BUILT"
                  /\ exception' = exception
                  /\ eleves_work' = ew
                  /\ seats' = st
                  /\ allowed_by_e' = apply_exact_seats(contraintes, ew, st, dom)
                  /\ edges_adj' = adjacent_edges_same_table(st)
    /\ UNCHANGED <<entrees, limites, status1, status2, status3, status4, best_iso, best_same,
                   best_sumY, x3, x4, affectation, resultat>>

\* The time limit of the solver _make_solver(per_pass_s) returns
limite_de_passe ==
    max_time_in_seconds(per_pass_s(budget_temps_ms, solveur.tiebreak_random))

\* per_pass_s is not None: the budget is a positive number
timed == limite_de_passe # << >>

\* The measures of the current model
Iso(x) == nb_isoles(x, seats, edges_adj)

Same(x) == nb_same(x, eleves_work, edges_adj)

SumY(x) == sumY(x, seats)

\* The solutions of the model every pass rebuilds
Model == build_model(eleves_work, seats, allowed_by_e, contraintes, edges_adj)

primary_key ==
    IF solveur.prefer_alone THEN "iso"
    ELSE IF solveur.prefer_mixage THEN "same"
    ELSE "sumY"

\* Pass 2 decided on prefer_alone only
do_pass2_alone == solveur.prefer_alone

do_pass2 == solveur.prefer_alone /\ solveur.prefer_mixage

\* Pass 1 minimising the row sum whatever the preferences
Optimum1ParRangee(F) == ArgMin(F, SumY)

\* Pass 1: the optimal solutions of the primary objective
Optimum1(F) ==
    IF primary_key = "iso" THEN ArgMax(F, Iso)
    ELSE IF primary_key = "same" THEN ArgMin(F, Same)
    ELSE ArgMin(F, SumY)

\* Pass 2: the model with the primary value frozen, and its optimal solutions
Model2(F) ==
    IF primary_key = "iso" THEN { x \in F : Iso(x) = best_iso[1] }
    ELSE { x \in F : Same(x) = best_same[1] }

Optimum2(F2) == IF primary_key = "iso" THEN ArgMin(F2, Same) ELSE ArgMax(F2, Iso)

\* Pass 3 without the frozen measures of the earlier passes
Model3SansGel(F) == F

\* Pass 3: the model with the preferred measures frozen
Model3(F) ==
    { x \in F :
        /\ solveur.prefer_alone => Iso(x) = best_iso[1]
        /\ (solveur.prefer_mixage /\ best_same # << >>) => Same(x) = best_same[1] }

\* Pass 4: the pass-3 model with sumY frozen too
Model4(F) == { x \in Model3(F) : SumY(x) = best_sumY[1] }

\* rand_expr of pass 4 under a seed: sum(weights[(e, i)] * x4[e][i])
rand_expr(x) ==
    SumOver([e \in DOMAIN x |->
                weights(solveur.seed[1], e, x[e], Cardinality(DOMAIN seats))],
            DOMAIN x)

\* Pass 4 maximises sum(w[e, i] * x[e][i]) for weights w drawn in
\* 1..999999: without a seed, for every solution some draw makes it the
\* only optimum; with a seed the weights are those of the seed.
Optimum4(F4) ==
    IF solveur.seed = << >> THEN F4 ELSE ArgMax(F4, rand_expr)

\* return ResultatResolution(affectation=None, ...)
ReturnNone ==
    /\ resultat' = <<ResultatResolution(<< >>)>>
    /\ UNCHANGED affectation

\* resoudre, lines 119-141
Pass1 ==
    /\ pc = "DOMAINS_BUILT"
    /\ \E out \in Solve(Model, Optimum1(Model), timed) :
          /\ status1' = out[1]
          /\ IF Solved(out[1])
             THEN /\ pc' = "PASS1_OPT"
                  /\ best_iso' = <<Iso(out[2])>>
                  /\ best_same' = <<Same(out[2])>>
                  /\ UNCHANGED <<resultat, affectation>>
             ELSE /\ pc' = "NO_SOLUTION"
                  /\ ReturnNone
                  /\ UNCHANGED <<best_iso, best_same>>
    /\ limites' = Append(limites, limite_de_passe)
    /\ UNCHANGED <<entrees, exception, eleves_work, seats, allowed_by_e, edges_adj,
                   status2, status3, status4, best_sumY, x3, x4>>

\* resoudre, lines 143-162
Pass2 ==
    /\ pc = "PASS1_OPT"
    /\ do_pass2
    /\ \E out \in Solve(Model2(Model), Optimum2(Model2(Model)), timed) :
          /\ status2' = out[1]
          /\ IF Solved(out[1])
             THEN /\ pc' = "PASS2_OPT"
                  /\ best_iso' = <<Iso(out[2])>>
                  /\ best_same' = <<Same(out[2])>>
                  /\ UNCHANGED <<resultat, affectation>>
             ELSE /\ pc' = "NO_SOLUTION"
                  /\ ReturnNone
                  /\ UNCHANGED <<best_iso, best_same>>
    /\ limites' = Append(limites, limite_de_passe)
    /\ UNCHANGED <<entrees, exception, eleves_work, seats, allowed_by_e, edges_adj,
                   status1, status3, status4, best_sumY, x3, x4>>

\* resoudre, lines 164-180
Pass3 ==
    /\ pc = (IF do_pass2 THEN "PASS2_OPT" ELSE "PASS1_OPT")
    /\ \E out \in Solve(Model3(Model), ArgMin(Model3(Model), SumY), timed) :
          /\ status3' = out[1]
          /\ IF Solved(out[1])
             THEN /\ pc' = "PASS3_OPT"
                  /\ x3' = <<out[2]>>
                  /\ best_sumY' = <<SumY(out[2])>>
                  /\ UNCHANGED <<resultat, affectation>>
             ELSE /\ pc' = "NO_SOLUTION"
                  /\ ReturnNone
                  /\ UNCHANGED <<x3, best_sumY>>
    /\ limites' = Append(limites, limite_de_passe)
    /\ UNCHANGED <<entrees, exception, eleves_work, seats, allowed_by_e, edges_adj,
                   status1, status2, status4, best_iso, best_same, x4>>

\* resoudre, lines 183-203: the tie-break pass; without a solution the run
\* goes on with the pass-3 solution
Pass4 ==
    /\ pc = "PASS3_OPT"
    /\ solveur.tiebreak_random
    /\ \E out \in Solve(Model4(Model), Optimum4(Model4(Model)), timed) :
          /\ status4' = out[1]
          /\ x4' = IF Solved(out[1]) THEN <<out[2]>> ELSE << >>
    /\ pc' = "PASS4_OPT"
    /\ limites' = Append(limites, limite_de_passe)
    /\ UNCHANGED <<entrees, exception, eleves_work, seats, allowed_by_e, edges_adj,
                   status1, status2, status3, best_iso, best_same, best_sumY, x3,
                   affectation, resultat>>

\* A validator that accepts everything
ValideToujours(x) == TRUE

\* valider_final on the reconstruction of a solution
Valide(x) ==
    valider_final(reconstruction(x, eleves_work, seats), eleves_work, contraintes,
                  solveur.geom, solveur.table_offsets)

\* The pass-4 assignment never kept
Pass4Ignoree == FALSE

\* if status4 in (OPTIMAL, FEASIBLE) ... if self.valider_final(affectation4)
Pass4Retenue == solveur.tiebreak_random /\ Solved(status4) /\ Valide(x4[1])

\* resoudre, lines 204-233: the pass-4 assignment when there is one and the
\* validator accepts it, else the pass-3 assignment when the validator
\* accepts it, else no solution
FinalValidation ==
    /\ pc = (IF solveur.tiebreak_random THEN "PASS4_OPT" ELSE "PASS3_OPT")
    /\ IF Pass4Retenue
       THEN /\ pc' = "VALIDATED"
            /\ affectation' = <<reconstruction(x4[1], eleves_work, seats)>>
            /\ UNCHANGED resultat
       ELSE IF Valide(x3[1])
       THEN /\ pc' = "VALIDATED"
            /\ affectation' = <<reconstruction(x3[1], eleves_work, seats)>>
            /\ UNCHANGED resultat
       ELSE /\ pc' = "FAIL_FINAL_CHECK"
            /\ ReturnNone
    /\ UNCHANGED <<entrees, limites, exception, eleves_work, seats, allowed_by_e, edges_adj,
                   status1, status2, status3, status4, best_iso, best_same,
                   best_sumY, x3, x4>>

\* resoudre, lines 217 and 235: return ResultatResolution(affectation=...)
Return ==
    /\ pc = "VALIDATED"
    /\ pc' = "DONE"
    /\ resultat' = <<ResultatResolution(affectation)>>
    /\ UNCHANGED <<entrees, limites, exception, eleves_work, seats, allowed_by_e, edges_adj,
                   status1, status2, status3, status4, best_iso, best_same,
                   best_sumY, x3, x4, affectation>>

Next ==
    \/ SanityCheck
    \/ BuildDomains
    \/ Pass1
    \/ Pass2
    \/ Pass3
    \/ Pass4
    \/ FinalValidation
    \/ Return

Spec == Init /\ [][Next]_vars

\* resoudre called with the budgets of AppelsBudgets
InitBudgets ==
    /\ \E a \in AppelsBudgets :
          /\ salle = a.salle
          /\ eleves = a.eleves
          /\ contraintes = a.contraintes
          /\ solveur = a.solveur
          /\ budget_temps_ms = a.budget_temps_ms
    /\ payload = << >>
    /\ reconstruites = << >>
    /\ valide = << >>
    /\ premier = << >>
    /\ essais_max = 0
    /\ DebutRetourArriere
    /\ pc = "INIT"
    /\ Debut

SpecBudgets == InitBudgets /\ [][Next]_vars

\* resoudre called with the geometries, visual orders and row maps of
\* AppelsGeometrie
InitGeometrie ==
    /\ \E a \in AppelsGeometrie :
          /\ salle = a.salle
          /\ eleves = a.eleves
          /\ contraintes = a.contraintes
          /\ solveur = a.solveur
          /\ budget_temps_ms = a.budget_temps_ms
    /\ payload = << >>
    /\ reconstruites = << >>
    /\ valide = << >>
    /\ premier = << >>
    /\ essais_max = 0
    /\ DebutRetourArriere
    /\ pc = "INIT"
    /\ Debut

SpecGeometrie == InitGeometrie /\ [][Next]_vars

\* ------------------------------------------------------- the UI pipeline

\* The state before a payload is handled: the room and the roster are built
\* from the payload, the solver from the options {"solver": "cpsat"} (every
\* other option at its default, time_budget_ms = 60000)
InitUI ==
    /\ \E p \in Payloads : payload = <<p>>
    /\ salle = SchemaUI
    /\ eleves = eleves_from_payload(Etudiants)
    /\ contraintes = << >>
    /\ solveur = Defauts
    /\ budget_temps_ms = <<60000>>
    /\ reconstruites = << >>
    /\ valide = << >>
    /\ premier = << >>
    /\ essais_max = 0
    /\ DebutRetourArriere
    /\ pc = "UI"
    /\ Debut

\* What a step of the pipeline leaves: the exception it raised, or the list
\* it built and the stage that follows
Issue(r, suite, cs) ==
    IF r.r = "raise" THEN [pc |-> "RAISED", exception |-> r.exc, contraintes |-> cs]
    ELSE [pc |-> suite, exception |-> "", contraintes |-> r.v]

\* A call of fabrique_contraintes_ui with the payload's placements and its
\* lock flag: the list it returns, or the exception it raises
FabriqueAppel ==
    /\ pc = "UI"
    /\ payload[1].appel = "fabrique"
    /\ \E i \in { Issue(fabrique_contraintes_ui(
                            salle, eleves, payload[1].students,
                            payload[1].constraints_ui, payload[1].forbidden,
                            payload[1].placements, payload[1].lock_placements),
                        "TRADUIT", contraintes) } :
          pc' = i.pc /\ exception' = i.exception /\ contraintes' = i.contraintes
    /\ UNCHANGED <<retour_arriere_locaux, limites,
                   salle, eleves, solveur, budget_temps_ms, payload, reconstruites, valide,
                   premier,
                   eleves_work, seats, allowed_by_e, edges_adj,
                   status1, status2, status3, status4, best_iso, best_same,
                   best_sumY, x3, x4, affectation, resultat>>

\* t_solve_plandeclasse, lines 356-369: the translation, without placements
TacheTraduire ==
    /\ pc = "UI"
    /\ payload[1].appel = "tache"
    /\ \E i \in { Issue(fabrique_contraintes_ui(
                            salle, eleves, payload[1].students,
                            payload[1].constraints_ui, payload[1].forbidden,
                            << >>, FALSE),
                        "TACHE_TRADUITE", contraintes) } :
          pc' = i.pc /\ exception' = i.exception /\ contraintes' = i.contraintes
    /\ UNCHANGED <<retour_arriere_locaux, limites,
                   salle, eleves, solveur, budget_temps_ms, payload, reconstruites, valide,
                   premier,
                   eleves_work, seats, allowed_by_e, edges_adj,
                   status1, status2, status3, status4, best_iso, best_same,
                   best_sumY, x3, x4, affectation, resultat>>

\* t_solve_plandeclasse, lines 371-385: the locked placements are injected,
\* then the list goes to resoudre
TacheVerrous ==
    /\ pc = "TACHE_TRADUITE"
    /\ \E i \in { Issue(injection_de_la_tache(
                            payload[1].lock_placements, payload[1].placements,
                            payload[1].students, eleves, contraintes),
                        "INIT", contraintes) } :
          pc' = i.pc /\ exception' = i.exception /\ contraintes' = i.contraintes
    /\ UNCHANGED <<retour_arriere_locaux, limites,
                   salle, eleves, solveur, budget_temps_ms, payload, reconstruites, valide,
                   premier,
                   eleves_work, seats, allowed_by_e, edges_adj,
                   status1, status2, status3, status4, best_iso, best_same,
                   best_sumY, x3, x4, affectation, resultat>>

\* The round trip of the registry on every constraint of the translated
\* list: c2 = contrainte_depuis_code(c.code_machine(), ctx)
Reconstruire ==
    /\ pc = "TRADUIT"
    /\ pc' = "RECONSTRUIT"
    /\ reconstruites' = << [i \in DOMAIN contraintes |->
                              contrainte_depuis_code(code_machine(contraintes[i]),
                                                     salle, eleves)] >>
    /\ UNCHANGED <<retour_arriere_locaux, limites,
                   salle, eleves, contraintes, solveur, budget_temps_ms, payload, valide,
                   premier, exception, eleves_work, seats, allowed_by_e, edges_adj,
                   status1, status2, status3, status4, best_iso, best_same,
                   best_sumY, x3, x4, affectation, resultat>>

NextUI ==
    \/ FabriqueAppel
    \/ Reconstruire
    \/ TacheTraduire
    \/ TacheVerrous
    \/ SanityCheck
    \/ BuildDomains
    \/ Pass1
    \/ Pass2
    \/ Pass3
    \/ Pass4
    \/ FinalValidation
    \/ Return

SpecUI == InitUI /\ [][NextUI]_vars

\* ---------------------------------------------------- two runs of one call

\* The state before the first of two runs of a seeded call
InitDeuxRuns ==
    /\ \E a \in AppelsGraine :
          /\ salle = a.salle
          /\ eleves = a.eleves
          /\ contraintes = a.contraintes
          /\ solveur = a.solveur
          /\ budget_temps_ms = a.budget_temps_ms
    /\ payload = << >>
    /\ reconstruites = << >>
    /\ valide = << >>
    /\ premier = << >>
    /\ essais_max = 0
    /\ DebutRetourArriere
    /\ pc = "INIT"
    /\ Debut

\* resoudre has returned: the same solver is called again with the same
\* room, roster, constraints and budget
Relancer ==
    /\ pc \in {"DONE", "NO_SOLUTION", "FAIL_FINAL_CHECK"}
    /\ premier = << >>
    /\ premier' = <<[resultat |-> resultat[1], eleves_work |-> eleves_work]>>
    /\ pc' = "INIT"
    /\ exception' = ""
    /\ limites' = << >>
    /\ eleves_work' = << >>
    /\ seats' = << >>
    /\ allowed_by_e' = << >>
    /\ edges_adj' = {}
    /\ status1' = ""
    /\ status2' = ""
    /\ status3' = ""
    /\ status4' = ""
    /\ best_iso' = << >>
    /\ best_same' = << >>
    /\ best_sumY' = << >>
    /\ x3' = << >>
    /\ x4' = << >>
    /\ affectation' = << >>
    /\ resultat' = << >>
    /\ UNCHANGED <<retour_arriere_locaux,
                   salle, eleves, contraintes, solveur, budget_temps_ms, payload,
                   reconstruites, valide>>

NextDeuxRuns ==
    \/ SanityCheck
    \/ BuildDomains
    \/ Pass1
    \/ Pass2
    \/ Pass3
    \/ Pass4
    \/ FinalValidation
    \/ Return
    \/ Relancer

SpecDeuxRuns == InitDeuxRuns /\ [][NextDeuxRuns]_vars

\* ------------------------------------------------- the validator, directly

\* The state before a direct call of valider_final on the default solver
InitValidateur ==
    /\ \E a \in AppelsValidateur :
          /\ salle = a.salle
          /\ eleves = a.eleves
          /\ contraintes = a.contraintes
          /\ affectation = <<a.affectation>>
    /\ solveur = Defauts
    /\ budget_temps_ms = << >>
    /\ payload = << >>
    /\ reconstruites = << >>
    /\ valide = << >>
    /\ premier = << >>
    /\ essais_max = 0
    /\ DebutRetourArriere
    /\ pc = "V_START"
    /\ exception = ""
    /\ limites = << >>
    /\ eleves_work = << >>
    /\ seats = << >>
    /\ allowed_by_e = << >>
    /\ edges_adj = {}
    /\ status1 = ""
    /\ status2 = ""
    /\ status3 = ""
    /\ status4 = ""
    /\ best_iso = << >>
    /\ best_same = << >>
    /\ best_sumY = << >>
    /\ x3 = << >>
    /\ x4 = << >>
    /\ resultat = << >>

\* SolveurCPSAT.valider_final(salle, affectation, contraintes)
ValiderFinal ==
    /\ pc = "V_START"
    /\ pc' = "V_DONE"
    /\ valide' = <<valider_final(affectation[1], eleves, contraintes, solveur.geom,
                                 solveur.table_offsets)>>
    /\ UNCHANGED <<retour_arriere_locaux, limites,
                   salle, eleves, contraintes, solveur, budget_temps_ms, payload,
                   reconstruites, premier, exception, eleves_work, seats, allowed_by_e,
                   edges_adj, status1, status2, status3, status4, best_iso,
                   best_same, best_sumY, x3, x4, affectation, resultat>>

NextValidateur == ValiderFinal

SpecValidateur == InitValidateur /\ [][NextValidateur]_vars

\* ------------------------------------------ the backtracking solver, run

\* What the backtracking solver never touches
hors_retour_arriere ==
    <<salle, eleves, contraintes, essais_max, solveur, budget_temps_ms, payload,
      reconstruites, valide, premier, limites, exception, eleves_work, seats,
      allowed_by_e, edges_adj, status1, status2, status3, status4, best_iso, best_same, best_sumY,
      x3, x4>>

\* The state before SolveurAleatoireRetourArriere.resoudre runs; the solver
\* has no attribute, and resoudre never reads budget_temps_ms
InitRetourArriere ==
    /\ \E a \in AppelsRetourArriere :
          /\ salle = a.salle
          /\ eleves = a.eleves
          /\ contraintes = a.contraintes
          /\ essais_max = a.essais_max
    /\ solveur = << >>
    /\ budget_temps_ms = << >>
    /\ payload = << >>
    /\ reconstruites = << >>
    /\ valide = << >>
    /\ premier = << >>
    /\ DebutRetourArriere
    /\ pc = "RA_START"
    /\ Debut

\* resoudre, lines 32-44: fewer seats than students is a failure at once
Entree ==
    /\ pc = "RA_START"
    /\ IF Cardinality(toutes_les_places(salle)) < Len(eleves)
       THEN /\ pc' = "RA_DONE"
            /\ resultat' = <<[affectation |-> << >>, essais |-> 0, verifications |-> 0]>>
       ELSE /\ pc' = "RA_DOMAINES"
            /\ UNCHANGED resultat
    /\ UNCHANGED <<hors_retour_arriere, domaines, ordre, pile, utilises, essais,
                   verifications, affectation>>

\* resoudre, lines 48-66: one turn of "for e in eleves", which filters and
\* shuffles the domain of the next student
Domaine ==
    /\ pc = "RA_DOMAINES"
    /\ Cardinality(DOMAIN domaines) < Len(eleves)
    /\ \E d \in random_shuffle(domaine_initial(
                    eleves[Cardinality(DOMAIN domaines) + 1].nom, salle, contraintes)) :
          domaines' = (eleves[Cardinality(DOMAIN domaines) + 1].nom :> d) @@ domaines
    /\ UNCHANGED <<hors_retour_arriere, ordre, pile, utilises, essais, verifications,
                   affectation, resultat, pc>>

\* resoudre, lines 69-74 and the call retour_arriere(0) of line 112
Ordonner ==
    /\ pc = "RA_DOMAINES"
    /\ Cardinality(DOMAIN domaines) = Len(eleves)
    /\ ordre' = ordre_mrv(eleves, domaines)
    /\ essais' = 0
    /\ verifications' = 0
    /\ affectation' = <<Vide>>
    /\ utilises' = {}
    /\ pile' = <<0>>
    /\ pc' = "RA_SEARCH"
    /\ UNCHANGED <<hors_retour_arriere, domaines, resultat>>

\* A frame of retour_arriere returns False. Its caller undoes the placement
\* it had made (lines 108-109) and its for loop goes on; without a caller
\* resoudre returns a result without assignment (lines 112-113).
RetourFaux(e, v) ==
    IF Len(pile) = 1
    THEN /\ pile' = << >>
         /\ pc' = "RA_DONE"
         /\ resultat' = <<[affectation |-> << >>, essais |-> e, verifications |-> v]>>
         /\ UNCHANGED <<affectation, utilises>>
    ELSE /\ pile' = SubSeq(pile, 1, Len(pile) - 1)
         /\ utilises' = utilises \ {affectation[1][ordre[Len(pile) - 1].nom]}
         /\ affectation' = <<[n \in DOMAIN affectation[1] \ {ordre[Len(pile) - 1].nom} |->
                                 affectation[1][n]]>>
         /\ UNCHANGED <<pc, resultat>>

\* placement_coherent has answered for the place the for loop is at
\* (lines 103-106): a coherent place is taken and retour_arriere(i + 1) is
\* called, another one is skipped.
Placer(nom, pos, coh) ==
    /\ verifications' = verifications + coh.verifications
    /\ IF coh.coherent
       THEN /\ affectation' = <<(nom :> pos) @@ affectation[1]>>
            /\ utilises' = utilises \cup {pos}
            /\ pile' = Append([pile EXCEPT ![Len(pile)] = @ + 1], 0)
       ELSE /\ pile' = [pile EXCEPT ![Len(pile)] = @ + 1]
            /\ UNCHANGED <<affectation, utilises>>
    /\ UNCHANGED <<pc, resultat>>

\* retour_arriere, lines 99-107: one turn of "for pos in domaines[eleve]"
Essayer ==
    /\ pc = "RA_SEARCH"
    /\ Len(pile) <= Len(ordre)
    /\ pile[Len(pile)] < Len(domaines[ordre[Len(pile)].nom])
    /\ essais' = essais + 1
    /\ IF essais + 1 > essais_max
       THEN /\ RetourFaux(essais + 1, verifications)
            /\ UNCHANGED verifications
       ELSE \E pos \in { domaines[ordre[Len(pile)].nom][pile[Len(pile)] + 1] } :
               Placer(ordre[Len(pile)].nom, pos,
                      placement_coherent(ordre[Len(pile)].nom, pos, affectation[1],
                                         utilises, contraintes))
    /\ UNCHANGED <<hors_retour_arriere, domaines, ordre>>

\* retour_arriere, line 110: the for loop has run out of places
Epuise ==
    /\ pc = "RA_SEARCH"
    /\ Len(pile) <= Len(ordre)
    /\ pile[Len(pile)] = Len(domaines[ordre[Len(pile)].nom])
    /\ RetourFaux(essais, verifications)
    /\ UNCHANGED <<hors_retour_arriere, domaines, ordre, essais, verifications>>

\* retour_arriere, lines 96-97, with the return of lines 112-113: every
\* student is placed and valider_final decides
Feuille ==
    /\ pc = "RA_SEARCH"
    /\ Len(pile) = Len(ordre) + 1
    /\ IF valider_final_de_base(salle, affectation[1], contraintes)
       THEN /\ pile' = << >>
            /\ pc' = "RA_DONE"
            /\ resultat' = <<[affectation |-> affectation, essais |-> essais,
                              verifications |-> verifications]>>
            /\ UNCHANGED <<affectation, utilises>>
       ELSE RetourFaux(essais, verifications)
    /\ UNCHANGED <<hors_retour_arriere, domaines, ordre, essais, verifications>>

NextRetourArriere ==
    \/ Entree
    \/ Domaine
    \/ Ordonner
    \/ Essayer
    \/ Epuise
    \/ Feuille

SpecRetourArriere == InitRetourArriere /\ [][NextRetourArriere]_vars

\* --------------------------------------------------------------- properties

\* resoudre has returned an assignment (affectation is not None)
Succes == resultat # << >> /\ resultat[1].affectation # << >>

\* resoudre has returned affectation None
Echec == resultat # << >> /\ resultat[1].affectation = << >>

\* The returned assignment: student name -> Position
A == resultat[1].affectation[1]

NomsDesEleves == { eleves[e].nom : e \in DOMAIN eleves }

\* C1: every successful result is a total injective map: every student of
\* the roster has one Position in it and no two students have the same
\* Position.
C1_TotalInjective ==
    Succes =>
        /\ DOMAIN A = NomsDesEleves
        /\ \A n, m \in DOMAIN A : n # m => A[n] # A[m]

\* Two students at least have been placed by a successful solve
C1_Witness == Succes /\ Cardinality(DOMAIN A) >= 2

\* C2: in every successful result each student sits on a seat of the room
\* that is in the student's precomputed domain; nobody sits on a seat of a
\* ForbidSeat or on a table of a ForbidTable, and a student with an
\* ExactSeat sits exactly there.
C2_InDomain ==
    Succes =>
        /\ \A e \in DOMAIN eleves_work :
              /\ A[eleves_work[e].nom] \in toutes_les_places(salle)
              /\ seat_index_of(A[eleves_work[e].nom], seats) \in allowed_by_e[e]
        /\ \A i \in DOMAIN contraintes :
              LET c == contraintes[i] IN
              /\ c.type = "forbid_seat" =>
                    \A n \in DOMAIN A :
                        A[n] # [x |-> c.x, y |-> c.y, siege |-> c.seat]
              /\ c.type = "forbid_table" =>
                    \A n \in DOMAIN A : <<A[n].x, A[n].y>> # <<c.x, c.y>>
              /\ c.type = "exact_seat" => A[c.eleve] = c.ou

\* A successful solve under two domain constraints, one of them an
\* ExactSeat, with a student whose domain is smaller than the room
C2_Witness ==
    /\ Succes
    /\ \E i, j \in DOMAIN contraintes :
          /\ contraintes[i].type = "exact_seat"
          /\ contraintes[j].type \in {"forbid_seat", "forbid_table"}
    /\ \E e \in DOMAIN eleves_work : allowed_by_e[e] # DOMAIN seats

\* C3: in every successful result every constraint passed to the solve is
\* satisfied (est_satisfaite is true), whatever the kind and the schema.
C3_Satisfied ==
    Succes => \A i \in DOMAIN contraintes : est_satisfaite(contraintes[i], A)

\* The solution of the model the returned assignment was read from
Rendu == CHOOSE x \in Model : reconstruction(x, eleves_work, seats) = A

\* x is lexicographically optimal in F: most isolated students, then fewest
\* same-gender adjacent pairs, then smallest row sum
LexOptimal(x, F) ==
    \A z \in F :
        /\ Iso(z) <= Iso(x)
        /\ Iso(z) = Iso(x) => Same(z) >= Same(x)
        /\ (Iso(z) = Iso(x) /\ Same(z) = Same(x)) => SumY(z) >= SumY(x)

\* C4 as stated: with prefer_alone and prefer_mixage both active every
\* successful result is lexicographically optimal among the assignments
\* satisfying the hard constraints, whether the passes ended OPTIMAL or
\* FEASIBLE.
C4_LexOptimalAlways ==
    (solveur.prefer_alone /\ solveur.prefer_mixage /\ Succes) => LexOptimal(Rendu, Model)

\* C4, amended: with prefer_alone and prefer_mixage both active every
\* successful result whose passes 1, 2 and 3 each ended OPTIMAL is
\* lexicographically optimal among the assignments satisfying the hard
\* constraints.
C4_LexOptimalWhenProved ==
    (/\ solveur.prefer_alone /\ solveur.prefer_mixage /\ Succes
     /\ status1 = "OPTIMAL" /\ status2 = "OPTIMAL" /\ status3 = "OPTIMAL")
    => LexOptimal(Rendu, Model)

\* A proved lexicographic optimum where the second objective decides: some
\* assignment isolates as many students with more same-gender pairs
C4_Witness ==
    /\ solveur.prefer_alone /\ solveur.prefer_mixage /\ Succes
    /\ status1 = "OPTIMAL" /\ status2 = "OPTIMAL" /\ status3 = "OPTIMAL"
    /\ \E z \in Model : Iso(z) = Iso(Rendu) /\ Same(z) > Same(Rendu)
    /\ \E z \in Model : SumY(z) > SumY(Rendu)

\* Scenario S1 at the scale of the model: identical rows, row 0 able to hold
\* the whole roster, students without gender, no constraint, the default
\* options of the solver and the default budget
ScenarioS1 ==
    /\ \A r \in DOMAIN salle : salle[r] = salle[1]
    /\ Len(eleves) >= 1
    /\ Len(eleves) <= Cardinality({ p \in toutes_les_places(salle) : p.y = 0 })
    /\ \A e \in DOMAIN eleves : genre_code(eleves[e].genre) = ""
    /\ contraintes = << >>
    /\ solveur = Defauts
    /\ budget_temps_ms = <<60000>>

Infaisable ==
    LET st == enumerate_seats(salle, solveur.geom, solveur.table_offsets)
        dom == apply_exact_seats(contraintes, eleves, st,
                   compute_allowed_domains(salle, eleves, contraintes, st, solveur.geom,
                                           solveur.row_order_ui, solveur.row_map_ui))
        ed == adjacent_edges_same_table(st)
    IN ~\E x \in [DOMAIN eleves -> DOMAIN st] :
          /\ \A e \in DOMAIN x : x[e] \in dom[e]
          /\ \A e1, e2 \in DOMAIN x : e1 # e2 => x[e1] # x[e2]
          /\ \A n \in DOMAIN contraintes : Encoded(contraintes[n], x, eleves, st, ed)

AppelSain ==
    /\ ~sanity_check_raises(salle, eleves, contraintes)
    /\ \A i \in DOMAIN contraintes :
          contraintes[i].type = "exact_seat" =>
              contraintes[i].ou \in toutes_les_places(salle)

Suivants(p) ==
    CASE p = "INIT" -> {"SANITY_OK", "RAISED"}
      [] p = "SANITY_OK" -> {"DOMAINS_BUILT", "RAISED"}
      [] p = "DOMAINS_BUILT" -> {"PASS1_OPT", "NO_SOLUTION"}
      [] p = "PASS1_OPT" -> IF solveur.prefer_alone /\ solveur.prefer_mixage
                            THEN {"PASS2_OPT", "NO_SOLUTION"}
                            ELSE {"PASS3_OPT", "NO_SOLUTION"}
      [] p = "PASS2_OPT" -> {"PASS3_OPT", "NO_SOLUTION"}
      [] p = "PASS3_OPT" -> IF solveur.tiebreak_random
                            THEN {"PASS4_OPT"}
                            ELSE {"VALIDATED", "FAIL_FINAL_CHECK"}
      [] p = "PASS4_OPT" -> {"VALIDATED", "FAIL_FINAL_CHECK"}
      [] p = "VALIDATED" -> {"DONE"}
      [] OTHER -> {}

\* One step of resoudre in the order of the pipeline
C7_Step ==
    /\ pc' \in Suivants(pc)
    \* a pass runs (its status is set) once, and after a solved pass
    /\ status1' # status1 => (pc = "DOMAINS_BUILT" /\ status1 = "")
    /\ status2' # status2 => (pc = "PASS1_OPT" /\ status2 = "" /\ status1 \in {"OPTIMAL", "FEASIBLE"})
    /\ status3' # status3 =>
          /\ status3 = ""
          /\ IF status2 = "" THEN pc = "PASS1_OPT" /\ status1 \in {"OPTIMAL", "FEASIBLE"}
             ELSE pc = "PASS2_OPT" /\ status2 \in {"OPTIMAL", "FEASIBLE"}
          /\ status2 # "" <=> (solveur.prefer_alone /\ solveur.prefer_mixage)
    /\ status4' # status4 =>
          (pc = "PASS3_OPT" /\ status4 = "" /\ status3 \in {"OPTIMAL", "FEASIBLE"})
    \* the final validation comes after pass 3, and after pass 4 exactly when
    \* the tie-break is on
    /\ pc' \in {"VALIDATED", "FAIL_FINAL_CHECK"} =>
          /\ status3 \in {"OPTIMAL", "FEASIBLE"}
          /\ status4 # "" <=> solveur.tiebreak_random

\* C7: every run goes through sanity check, domain computation, pass 1,
\* [pass 2], pass 3, [pass 4], final validation in that order without
\* repeating or going back; pass 2 runs exactly when prefer_alone and
\* prefer_mixage are both true, pass 4 exactly when tiebreak_random is true,
\* and a pass starts only after the previous pass returned a solution.
C7_StepsInOrder == [][C7_Step]_vars

\* A run that went through the four passes to the end
C7_Witness == pc = "DONE" /\ status2 # "" /\ status4 # ""

\* C8 as stated: if any pass that runs, 1 to 4, ends without a solution the
\* solve returns affectation None.
C8_AnyPassFails ==
    (\E st \in {status1, status2, status3, status4} : st \in {"INFEASIBLE", "UNKNOWN"})
        => ~Succes

\* C8, amended: if pass 1, 2 or 3 ends without a solution the solve returns
\* affectation None at once and builds no assignment; if pass 4 ends
\* without a solution the run goes on with the pass-3 solution, and a
\* success then returns the pass-3 assignment.
C8_FirstThreePassesFail ==
    /\ (\E st \in {status1, status2, status3} : st \in {"INFEASIBLE", "UNKNOWN"})
          => (pc = "NO_SOLUTION" /\ Echec /\ affectation = << >>)
    /\ (status4 \in {"INFEASIBLE", "UNKNOWN"} /\ Succes)
          => A = reconstruction(x3[1], eleves_work, seats)

\* Pass 3 ended without a solution after solved passes 1 and 2, and the
\* solve returned None
C8_Witness ==
    /\ status1 \in {"OPTIMAL", "FEASIBLE"} /\ status2 \in {"OPTIMAL", "FEASIBLE"}
    /\ status3 \in {"INFEASIBLE", "UNKNOWN"}
    /\ Echec

\* C9: on success the returned assignment is the one read from pass 3,
\* except that it is the one read from pass 4 when pass 4 ran, returned a
\* solution and the validator accepted it.
C9_Provenance ==
    Succes =>
        A = IF /\ solveur.tiebreak_random
               /\ status4 \in {"OPTIMAL", "FEASIBLE"}
               /\ Valide(x4[1])
            THEN reconstruction(x4[1], eleves_work, seats)
            ELSE reconstruction(x3[1], eleves_work, seats)

\* A success returning a pass-4 assignment that differs from pass 3's
C9_Witness ==
    /\ Succes
    /\ status4 \in {"OPTIMAL", "FEASIBLE"}
    /\ x4 # x3
    /\ A = reconstruction(x4[1], eleves_work, seats)

\* C10: resoudre never returns an assignment that valider_final rejects;
\* when the validator rejects the assignment that would be returned the
\* result is affectation None, without exception.
C10_NeverRejected ==
    /\ Succes => valider_final(A, eleves_work, contraintes, solveur.geom,
                               solveur.table_offsets)
    /\ pc = "FAIL_FINAL_CHECK" => (Echec /\ exception = "")

\* The validator rejected the assignment of a solved run, which returned
\* None
C10_Witness ==
    /\ pc = "FAIL_FINAL_CHECK" /\ Echec
    /\ status3 \in {"OPTIMAL", "FEASIBLE"}
    /\ ~Valide(x3[1])

\* The three configuration errors of the call
TropDEleves == Len(eleves) > Cardinality(toutes_les_places(salle))

MemeSiegeImpose ==
    \E i, j \in DOMAIN contraintes :
        /\ i # j
        /\ contraintes[i].type = "exact_seat" /\ contraintes[j].type = "exact_seat"
        /\ contraintes[i].ou = contraintes[j].ou

SiegeImposeSurTableInterdite ==
    \E i, j \in DOMAIN contraintes :
        /\ contraintes[i].type = "exact_seat" /\ contraintes[j].type = "forbid_table"
        /\ contraintes[i].ou.x = contraintes[j].x
        /\ contraintes[i].ou.y = contraintes[j].y

\* C11: the sanity check raises ValueError, before any domain is computed
\* or any pass is run, exactly when there are more students than seats, or
\* two ExactSeat constraints name the same Position, or an ExactSeat
\* Position lies on a table excluded by ForbidTable; in every other case it
\* raises nothing.
C11_SanityExactly ==
    /\ pc # "INIT" =>
          (exception = "ValueError"
              <=> (TropDEleves \/ MemeSiegeImpose \/ SiegeImposeSurTableInterdite))
    /\ exception = "ValueError" =>
          /\ pc = "RAISED"
          /\ seats = << >> /\ eleves_work = << >> /\ edges_adj = {}
          /\ status1 = "" /\ status2 = "" /\ status3 = "" /\ status4 = ""
          /\ resultat = << >>

\* The sanity check raised for a roster that fits the room: the same
\* ExactSeat given twice
C11_Witness ==
    /\ exception = "ValueError" /\ pc = "RAISED"
    /\ ~TropDEleves /\ MemeSiegeImpose /\ ~SiegeImposeSurTableInterdite
    /\ \A i, j \in DOMAIN contraintes :
          (contraintes[i].type = "exact_seat" /\ contraintes[j].type = "exact_seat")
              => contraintes[i].eleve = contraintes[j].eleve

\* The tables that the ForbidTable constraints of a list name
tables_interdites(cs) ==
    { <<cs[i].x, cs[i].y>> : i \in { j \in DOMAIN cs : cs[j].type = "forbid_table" } }

\* The task runs with the lock, and a pre-placement of a student of the
\* roster, whom no exact_seat descriptor pins, sits on a seat that a
\* ForbidSeat of the translated list forbids (from the forbidden keys or from
\* a descriptor) or on a table that a ForbidTable forbids
VerrouSurInterdit ==
    /\ payload # << >>
    /\ payload[1].appel = "tache"
    /\ payload[1].lock_placements
    /\ \A i \in DOMAIN payload[1].constraints_ui :
          payload[1].constraints_ui[i].type # "exact_seat"
    /\ \E k \in DOMAIN payload[1].placements :
          /\ payload[1].placements[k][2] \in DOMAIN id2nom_map(payload[1].students)
          /\ \E xys \in { key_forbid(payload[1].placements[k][1]) } :
                /\ xys.r = "ok"
                /\ \/ xys.v \in sieges_deja(contraintes)
                   \/ <<xys.v[1], xys.v[2]>> \in tables_interdites(contraintes)

\* C12: when the lock is requested and a pre-placement sits on a forbidden
\* seat or on a forbidden table, the pipeline (translation, lock injection,
\* sanity check) ends with a configuration error: it never gets past the
\* sanity check of the solver, so no ExactSeat on a forbidden place is solved
\* for and no plain no-solution result is returned.
C12_LockOnForbiddenRaises ==
    (VerrouSurInterdit /\ pc \notin {"UI", "TACHE_TRADUITE", "INIT"})
        => (pc = "RAISED" /\ exception = "ValueError")

\* The part of C12 the code does guarantee: a locked placement on a table
\* that a ForbidTable forbids is refused by the sanity check
C12_LockOnForbiddenTableRaises ==
    (/\ VerrouSurInterdit
     /\ \E k \in DOMAIN payload[1].placements :
           \E xys \in { key_forbid(payload[1].placements[k][1]) } :
              xys.r = "ok" /\ <<xys.v[1], xys.v[2]>> \in tables_interdites(contraintes)
     /\ pc \notin {"UI", "TACHE_TRADUITE", "INIT"})
        => (pc = "RAISED" /\ exception = "ValueError")

\* The descriptors of the payload that are not internal markers
DescripteursReels ==
    { i \in DOMAIN payload[1].constraints_ui :
        payload[1].constraints_ui[i].type \notin {"_batch_marker_", "_objective_", ""} }

\* fabrique_contraintes_ui has returned the translation of a payload that
\* has descriptors only: no forbidden key, no placement
TraductionSeule ==
    /\ payload # << >>
    /\ pc = "TRADUIT"
    /\ payload[1].forbidden = << >>
    /\ payload[1].placements = << >>

\* C13: the translator never silently drops a descriptor: when it returns,
\* every descriptor that is not an internal marker has yielded one
\* constraint (a descriptor of an unknown type or of an unknown student id
\* makes it raise instead).
C13_NoSilentDrop ==
    TraductionSeule => Len(contraintes) = Cardinality(DescripteursReels)

\* The indices of the ForbidSeat constraints of the list for the seat xys
InterditsPour(xys) ==
    { i \in DOMAIN contraintes :
        /\ contraintes[i].type = "forbid_seat"
        /\ <<contraintes[i].x, contraintes[i].y, contraintes[i].seat>> = xys }

\* fabrique_contraintes_ui has returned, and no two forbid_seat descriptors
\* of the payload were for the same seat
TraductionInterdits ==
    /\ payload # << >>
    /\ pc = "TRADUIT"
    /\ \A i, j \in DOMAIN payload[1].constraints_ui :
          (/\ i # j
           /\ payload[1].constraints_ui[i].type = "forbid_seat"
           /\ payload[1].constraints_ui[j].type = "forbid_seat")
          => code_ui(payload[1].constraints_ui[i], Vide)
                # code_ui(payload[1].constraints_ui[j], Vide)

\* C14: after translation, every seat of forbidden_keys has exactly one
\* ForbidSeat in the output, also when a forbid_seat descriptor gives the
\* same seat and when the seat comes more than once in forbidden_keys.
C14_OneForbidSeatPerKey ==
    TraductionInterdits =>
        \A k \in DOMAIN payload[1].forbidden :
            Cardinality(InterditsPour(key_forbid(payload[1].forbidden[k]).v)) = 1

\* The part of C14 the code does guarantee: every seat of forbidden_keys has
\* at least one ForbidSeat, and exactly one when forbidden_keys names no seat
\* twice
C14_OneForbidSeatPerDistinctKey ==
    TraductionInterdits =>
        \A k \in DOMAIN payload[1].forbidden :
            /\ Cardinality(InterditsPour(key_forbid(payload[1].forbidden[k]).v)) >= 1
            /\ (\A l \in DOMAIN payload[1].forbidden :
                   l # k => key_forbid(payload[1].forbidden[l])
                               # key_forbid(payload[1].forbidden[k]))
               => Cardinality(InterditsPour(key_forbid(payload[1].forbidden[k]).v)) = 1

\* The indices of the ExactSeat constraints of a list for a student name
ExactsDe(cs, nom) ==
    { i \in DOMAIN cs : cs[i].type = "exact_seat" /\ cs[i].eleve = nom }

\* The list in `contraintes` is the output of the translation with the
\* placements: fabrique_contraintes_ui has returned, or the task has
\* injected the locked placements
PlacementsTraduits ==
    /\ payload # << >>
    /\ \/ pc = "TRADUIT"
       \/ payload[1].appel = "tache" /\ pc \notin {"UI", "TACHE_TRADUITE", "RAISED"}

\* The number of ExactSeat constraints of the output for a name that come
\* from the placements: those the descriptors alone do not give
ExactsDesPlacements(nom) ==
    Cardinality(ExactsDe(contraintes, nom))
      - Cardinality(ExactsDe(traduire_tous(<< >>, payload[1].constraints_ui,
                                           id2nom_map(payload[1].students),
                                           salle, eleves).v, nom))

\* The placements of the payload that are for the student of a name
PlacementsDe(nom) ==
    { k \in DOMAIN payload[1].placements :
        /\ payload[1].placements[k][2] \in DOMAIN id2nom_map(payload[1].students)
        /\ id2nom_map(payload[1].students)[payload[1].placements[k][2]] = nom }

\* C15: with the lock, the output holds an ExactSeat from the placements for
\* every placed student no descriptor pins, none for a pinned student, and
\* at most one per student name; without the lock it holds none.
C15_OneLockPerStudent ==
    PlacementsTraduits =>
        \A e \in DOMAIN eleves :
            IF ~payload[1].lock_placements
                  \/ ExactsDesPlacements(eleves[e].nom) < Cardinality(ExactsDe(contraintes, eleves[e].nom))
            THEN ExactsDesPlacements(eleves[e].nom) = 0
            ELSE /\ ExactsDesPlacements(eleves[e].nom) <= 1
                 /\ PlacementsDe(eleves[e].nom) # {}
                       => ExactsDesPlacements(eleves[e].nom) = 1

\* The part of C15 the code does guarantee: one ExactSeat per placement of a
\* student no descriptor pins, none for a pinned student, none without lock
C15_OneLockPerPlacement ==
    PlacementsTraduits =>
        \A e \in DOMAIN eleves :
            IF ~payload[1].lock_placements
                  \/ ExactsDesPlacements(eleves[e].nom) < Cardinality(ExactsDe(contraintes, eleves[e].nom))
            THEN ExactsDesPlacements(eleves[e].nom) = 0
            ELSE ExactsDesPlacements(eleves[e].nom) = Cardinality(PlacementsDe(eleves[e].nom))

\* C16: serialisation round-trips: for every constraint c of the translated
\* list, the registry rebuilds a constraint from c.code_machine(), the
\* rebuilt constraint serialises to the same record, and it equals c (same
\* kind, same students, same k, d, position and metric).
C16_RoundTrip ==
    pc = "RECONSTRUIT" =>
        \A i \in DOMAIN contraintes :
            /\ reconstruites[1][i].r = "ok"
            /\ code_machine(reconstruites[1][i].v) = code_machine(contraintes[i])
            /\ reconstruites[1][i].v = contraintes[i]

\* The part of C16 the code does guarantee: the rebuilt constraint
\* serialises to the same record, and it equals c when c has the metric
\* "grid" or has none
C16_RoundTripOfRecords ==
    pc = "RECONSTRUIT" =>
        \A i \in DOMAIN contraintes :
            /\ reconstruites[1][i].r = "ok"
            /\ code_machine(reconstruites[1][i].v) = code_machine(contraintes[i])
            /\ ("metric" \notin DOMAIN contraintes[i] \/ contraintes[i].metric = "grid")
                  => reconstruites[1][i].v = contraintes[i]

\* The seats that are the single seat of their table
SiegesSeuls ==
    { i \in DOMAIN seats : Cardinality(seats_by_table(seats, table_key(seats[i]))) = 1 }

\* The model is built, and the constraints of the call are EmptyNeighbor
\* constraints on one student and nothing else
VoisinVideSeul ==
    /\ seats # << >>
    /\ contraintes # << >>
    /\ \A n \in DOMAIN contraintes :
          /\ contraintes[n].type = "empty_neighbor"
          /\ contraintes[n].eleve = contraintes[1].eleve

\* C17: EmptyNeighbor is vacuously satisfied on a table of capacity 1: the
\* CP-SAT model admits, and the final validator accepts, an assignment that
\* puts the student under EmptyNeighbor on the single seat of such a table.
C17_SingleSeatAdmitted ==
    VoisinVideSeul =>
        \A i \in SiegesSeuls :
            \E x \in Model :
                /\ x[IndexOf(eleves_work, contraintes[1].eleve)] = i
                /\ valider_final(reconstruction(x, eleves_work, seats), eleves_work,
                                 contraintes, solveur.geom, solveur.table_offsets)

\* The half of C17 the code does guarantee: the final validator accepts every
\* assignment without a shared seat that puts the student on the single seat
\* of a table
C17_SingleSeatValidated ==
    VoisinVideSeul =>
        \A i \in SiegesSeuls :
            \A x \in [DOMAIN eleves_work -> DOMAIN seats] :
                (SeatsDistinct(x) /\ x[IndexOf(eleves_work, contraintes[1].eleve)] = i)
                    => valider_final(reconstruction(x, eleves_work, seats), eleves_work,
                                     contraintes, solveur.geom, solveur.table_offsets)

\* What the CP-SAT model does instead: no solution of the model puts a
\* student under EmptyNeighbor on the single seat of a table
C17_SingleSeatRefused ==
    VoisinVideSeul =>
        \A x \in Model : x[IndexOf(eleves_work, contraintes[1].eleve)] \notin SiegesSeuls

\* C18: the final validator covers every constraint kind: when a complete
\* assignment violates a constraint of the list (est_satisfaite is false
\* for it), valider_final returns False.
C18_ValidatorCoversEveryKind ==
    pc = "V_DONE" =>
        \A n \in DOMAIN contraintes :
            ~est_satisfaite(contraintes[n], affectation[1]) => valide = <<FALSE>>

\* The part of C18 the code does guarantee: the kinds valider_final tests
\* (SoloAtTable, NoAdjacentNeighbor, FarApart, SameTable, Adjacent)
C18_ValidatorCoversFiveKinds ==
    pc = "V_DONE" =>
        \A n \in DOMAIN contraintes :
            (/\ contraintes[n].type \in {"solo_table", "no_adjacent", "far_apart",
                                         "same_table", "adjacent"}
             /\ ~est_satisfaite(contraintes[n], affectation[1]))
                => valide = <<FALSE>>

\* C19: reproducibility: two runs of resoudre on the same room, students,
\* constraints and options with the same non-null seed return the same
\* assignment.
C19_SameSeedSameAssignment ==
    (premier # << >> /\ resultat # << >>) => resultat[1] = premier[1].resultat

\* The part of C19 the code does guarantee: the order of the students after
\* the shuffle is a function of the seed, the same in both runs, and the
\* two runs agree on whether there is a solution
C19_SameSeedSameOrder ==
    /\ (premier # << >> /\ eleves_work # << >>) => eleves_work = premier[1].eleves_work
    /\ (premier # << >> /\ resultat # << >>)
          => ((resultat[1].affectation = << >>) <=> (premier[1].resultat.affectation = << >>))


\* resoudre of the backtracking solver has returned an assignment
RetourArriereRendu ==
    /\ pc = "RA_DONE"
    /\ resultat # << >>
    /\ resultat[1].affectation # << >>

\* C20: whenever SolveurAleatoireRetourArriere.resoudre returns an
\* assignment, it places every student, uses no seat twice, puts each
\* ExactSeat student on its exact seat and nobody on a ForbidTable table,
\* makes est_satisfaite true for every constraint passed, and valider_final
\* true.
C20_BacktrackingAssignmentIsSound ==
    RetourArriereRendu =>
        /\ \A e \in DOMAIN eleves : eleves[e].nom \in DOMAIN resultat[1].affectation[1]
        /\ \A n1, n2 \in DOMAIN resultat[1].affectation[1] :
              n1 # n2 => resultat[1].affectation[1][n1] # resultat[1].affectation[1][n2]
        /\ \A i \in DOMAIN contraintes :
              contraintes[i].type = "exact_seat" =>
                 resultat[1].affectation[1][contraintes[i].eleve] = contraintes[i].ou
        /\ \A i \in DOMAIN contraintes :
              contraintes[i].type = "forbid_table" =>
                 \A n \in DOMAIN resultat[1].affectation[1] :
                    ~(/\ resultat[1].affectation[1][n].x = contraintes[i].x
                      /\ resultat[1].affectation[1][n].y = contraintes[i].y)
        /\ \A i \in DOMAIN contraintes :
              est_satisfaite(contraintes[i], resultat[1].affectation[1])
        /\ valider_final_de_base(salle, resultat[1].affectation[1], contraintes)

\* An assignment is returned for a call with an ExactSeat and a ForbidTable
\* constraint, after the search has refused at least one place
C20_Witness ==
    /\ RetourArriereRendu
    /\ \E i \in DOMAIN contraintes : contraintes[i].type = "exact_seat"
    /\ \E i \in DOMAIN contraintes : contraintes[i].type = "forbid_table"
    /\ resultat[1].essais > Len(eleves)

\* The seat ids that places_autorisees of a constraint gives to the student
\* of index e of the working roster, all of them when it returns None
ids_autorises(c, e) ==
    IF places_autorisees(c, eleves_work[e].nom, salle) = << >> THEN DOMAIN seats
    ELSE { i \in DOMAIN seats :
             [x |-> seats[i].x, y |-> seats[i].y, siege |-> seats[i].s]
                \in places_autorisees(c, eleves_work[e].nom, salle)[1] }

\* The seats no ForbidTable and no ForbidSeat of the list excludes
ids_non_interdits ==
    { i \in DOMAIN seats :
        \A n \in DOMAIN contraintes :
            /\ contraintes[n].type = "forbid_table" =>
                  ~(seats[i].x = contraintes[n].x /\ seats[i].y = contraintes[n].y)
            /\ contraintes[n].type = "forbid_seat" =>
                  ~(/\ seats[i].x = contraintes[n].x /\ seats[i].y = contraintes[n].y
                    /\ seats[i].s = contraintes[n].seat) }

\* C21: once _compute_allowed_domains and _apply_exact_seats have run, the
\* allowed set of every student is the intersection, over all constraints,
\* of the seats the constraint's places_autorisees allows to that student.
C21_DomainIsIntersection ==
    pc = "DOMAINS_BUILT" =>
        \A e \in DOMAIN eleves_work :
            allowed_by_e[e] =
                { i \in DOMAIN seats :
                    \A n \in DOMAIN contraintes : i \in ids_autorises(contraintes[n], e) }

\* C21, the part on whose domain a constraint touches: a student that no
\* FrontRows, BackRows or ExactSeat names keeps every seat that no ForbidTable
\* and no ForbidSeat excludes, and loses those seats like every other student.
C21_OnlyOwnStudentAndStructural ==
    pc = "DOMAINS_BUILT" =>
        \A e \in DOMAIN eleves_work :
            /\ allowed_by_e[e] \subseteq ids_non_interdits
            /\ (\A n \in DOMAIN contraintes :
                   contraintes[n].type \in {"front_rows", "back_rows", "exact_seat"}
                      => contraintes[n].eleve # eleves_work[e].nom)
                 => allowed_by_e[e] = ids_non_interdits

\* C29: with no row map, no row order and the grid metric, the seats that
\* _compute_allowed_domains leaves to the student of a FrontRows or BackRows
\* constraint are the seats of the constraint's own places_autorisees, on
\* every schema.
C29_GridRowsAsPlacesAutorisees ==
    (/\ pc = "DOMAINS_BUILT"
     /\ DOMAIN solveur.row_map_ui = {}
     /\ solveur.row_order_ui = << >>) =>
        \A n \in DOMAIN contraintes :
            (contraintes[n].type \in {"front_rows", "back_rows"}
                /\ contraintes[n].metric = "grid") =>
                rows_ids_allowed(contraintes[n], seats, solveur.geom,
                                 solveur.row_order_ui, solveur.row_map_ui)
                  = ids_autorises(contraintes[n],
                                  IndexOf(eleves_work, contraintes[n].eleve))

\* C29 on the schemas whose every row index holds a table
C29_GridRowsWithoutGap ==
    (/\ pc = "DOMAINS_BUILT"
     /\ DOMAIN solveur.row_map_ui = {}
     /\ solveur.row_order_ui = << >>
     /\ \A y \in 0..(Len(salle) - 1) : \E tk \in TableKeys(salle) : tk[2] = y) =>
        \A n \in DOMAIN contraintes :
            (contraintes[n].type \in {"front_rows", "back_rows"}
                /\ contraintes[n].metric = "grid") =>
                rows_ids_allowed(contraintes[n], seats, solveur.geom,
                                 solveur.row_order_ui, solveur.row_map_ui)
                  = ids_autorises(contraintes[n],
                                  IndexOf(eleves_work, contraintes[n].eleve))

\* Between two steps of the search (a frame of retour_arriere has just been
\* entered, or a call has just returned to it): utilises is the set of the
\* Positions of affectation, affectation is injective and holds the students
\* before the frame's own in the search order, each on a seat of its domain.
RetourArriereCoherent ==
    pc = "RA_SEARCH" =>
        /\ utilises = { affectation[1][n] : n \in DOMAIN affectation[1] }
        /\ \A n1, n2 \in DOMAIN affectation[1] :
              n1 # n2 => affectation[1][n1] # affectation[1][n2]
        /\ DOMAIN affectation[1] = { ordre[j].nom : j \in 1..(Len(pile) - 1) }
        /\ \A n \in DOMAIN affectation[1] :
              \E k \in DOMAIN domaines[n] : domaines[n][k] = affectation[1][n]

\* A search that ran out of attempts returns no assignment
RetourArriereEchec ==
    (pc = "RA_DONE" /\ resultat[1].essais > essais_max) =>
        resultat[1].affectation = << >>

\* C30: in the backtracking solver, at every entry to and return from
\* retour_arriere utilises is the set of the Positions of affectation,
\* affectation is injective and holds exactly the first i students of the
\* search order, each on a seat of its domain; essais never exceeds
\* essais_max + 1; a failed search returns no assignment.
C30_SearchInvariant ==
    /\ RetourArriereCoherent
    /\ RetourArriereEchec
    /\ pc \in {"RA_SEARCH", "RA_DONE"} => essais <= essais_max + 1

\* C30 with the bound the code keeps: every frame that unwinds after the
\* limit is passed counts one more attempt
C30_SearchInvariantUnwinding ==
    /\ RetourArriereCoherent
    /\ RetourArriereEchec
    /\ pc \in {"RA_SEARCH", "RA_DONE"} => essais <= essais_max + Max2(1, Len(eleves))

\* Seat i is occupied and no seat adjacent to it (same table, seat number
\* one less or one more) is
SeulSurSesVoisins(x, i) ==
    /\ occ(x, i)
    /\ \A j \in DOMAIN seats :
          (/\ seats[j].x = seats[i].x /\ seats[j].y = seats[i].y
           /\ Abs(seats[j].s - seats[i].s) = 1) => ~occ(x, j)

RECURSIVE somme_des_limites(_)
somme_des_limites(l) ==
    IF l = << >> THEN 0 ELSE l[1][1] + somme_des_limites(Tail(l))

\* A positive budget was given
BudgetPositif == budget_temps_ms # << >> /\ budget_temps_ms[1] > 0

\* Every pass that has run received the same time limit (the first half of
\* C25, which the code keeps)
MemeLimitePourChaquePasse ==
    BudgetPositif =>
        \A i \in DOMAIN limites : limites[i] # << >> /\ limites[i] = limites[1]

\* C25: when a positive time budget B is given, every pass that runs
\* receives the same time limit and the sum of the time limits of the
\* passes that run never exceeds B.
C25_LimitsWithinBudget ==
    BudgetPositif =>
        /\ \A i \in DOMAIN limites : limites[i] # << >> /\ limites[i] = limites[1]
        /\ somme_des_limites(limites) <= DouziemesParMs * budget_temps_ms[1]

\* What the code keeps of C25: the sum stays within the budget once a share
\* of it is a tenth of a second or more
LimitesDansLeBudgetAuDessusDuPlancher ==
    (BudgetPositif /\ per_pass_s(budget_temps_ms, solveur.tiebreak_random)[1]
                          >= 100 * DouziemesParMs)
        => somme_des_limites(limites) <= DouziemesParMs * budget_temps_ms[1]

\* A run where four passes ran under a positive budget
QuatrePassesSousBudget == BudgetPositif /\ Len(limites) = 4 /\ pc = "DONE"

\* The place of row yy among rows ordered by key, then by y
RangDeLaRangee(yy, rows, key) ==
    Cardinality({ y2 \in rows : key[y2] < key[yy] \/ (key[y2] = key[yy] /\ y2 < yy) })

\* The seats FrontRows/BackRows c means, rule by rule: the visual rows of
\* the row map (rows 0..R-1, R one more than the largest index), else the
\* places of the rows in the visual order, else the rows ordered by their
\* smallest (front) or largest (back) py, else the rows ordered by y
SiegesVoulus(c) ==
    LET map == solveur.row_map_ui
        ord == solveur.row_order_ui
        front == c.type = "front_rows"
        ids == DOMAIN seats
        rows == { seats[i].y : i \in ids }
        n == Cardinality(rows)
        R == 1 + SetMax({ map[tk] : tk \in DOMAIN map }, 0)
        pys(yy) == { seats[i].py : i \in { j \in ids : seats[j].y = yy } }
        key == IF solveur.geom # << >> /\ c.metric = "px"
               THEN [yy \in rows |-> IF front THEN SetMin(pys(yy), 0) ELSE SetMax(pys(yy), 0)]
               ELSE [yy \in rows |-> yy]
    IN IF DOMAIN map # {} THEN
           { i \in ids :
               /\ table_key(seats[i]) \in DOMAIN map
               /\ LET r == map[table_key(seats[i])]
                  IN IF front THEN r \in 0..(c.k - 1) ELSE r \in (R - c.k)..(R - 1) /\ r >= 0 }
       ELSE IF ord # << >> THEN
           { i \in ids :
               \E pos \in DOMAIN ord :
                   /\ ord[pos] = seats[i].y
                   /\ IF front THEN pos <= c.k ELSE pos > Len(ord) - c.k }
       ELSE
           { i \in ids :
               LET rg == RangDeLaRangee(seats[i].y, rows, key)
               IN IF front THEN rg < c.k ELSE rg >= n - c.k }

\* The domains are built and every constraint is a FrontRows or a BackRows
DomainesDeRangees ==
    /\ pc \notin {"INIT", "SANITY_OK", "RAISED"}
    /\ contraintes # << >>
    /\ \A n \in DOMAIN contraintes : contraintes[n].type \in {"front_rows", "back_rows"}

\* C22: the rows meant by FrontRows/BackRows are chosen by the first
\* applicable rule in the order row map, visual row order, pixel ordering
\* (metric px and a geometry), natural y order; when a row map is given it
\* decides whatever the row order and the geometry are: FrontRows(s, k)
\* leaves s exactly the seats of the tables of visual rows 0..k-1 and
\* BackRows(s, k) exactly those of the last k visual rows.
C22_RowMapDecides ==
    DomainesDeRangees =>
        \A e \in DOMAIN eleves_work :
            allowed_by_e[e] =
                { i \in DOMAIN seats :
                    \A n \in DOMAIN contraintes :
                        contraintes[n].eleve = eleves_work[e].nom
                            => i \in SiegesVoulus(contraintes[n]) }

\* A call solved with a row map, a row order and a geometry that disagree
\* on the rows of the constraint
C22_Witness ==
    /\ DomainesDeRangees
    /\ pc = "DONE"
    /\ DOMAIN solveur.row_map_ui # {}
    /\ solveur.row_order_ui # << >>
    /\ solveur.geom # << >>
    /\ \E c \in {contraintes[1]} :
          /\ c.metric = "px"
          /\ SiegesVoulus(c) # rows_ids_allowed(c, seats, solveur.geom, solveur.row_order_ui, << >>)
          /\ SiegesVoulus(c) # rows_ids_allowed(c, seats, solveur.geom, << >>, << >>)
          /\ SiegesVoulus(c) # rows_ids_allowed(c, seats, << >>, << >>, << >>)

\* The Position of seat i
PositionDuSiege(i) == [x |-> seats[i].x, y |-> seats[i].y, siege |-> seats[i].s]

\* The model allows student a on seat i together with student b on seat j
\* under the FarApart constraint c
ModeleAdmet(c, i, j) ==
    Encoded(c, [e \in DOMAIN eleves_work |-> IF eleves_work[e].nom = c.a THEN i ELSE j],
            eleves_work, seats, edges_adj)

\* valider_final accepts the assignment of a to seat i and b to seat j
\* under the FarApart constraint c
ValidateurAdmet(c, i, j) ==
    valider_final([n \in {c.a, c.b} |-> IF n = c.a THEN PositionDuSiege(i)
                                        ELSE PositionDuSiege(j)],
                  eleves_work, <<c>>, solveur.geom, solveur.table_offsets)

\* The seats are enumerated and the roster is the two students of a
\* FarApart constraint
DeuxElevesEloignes ==
    /\ pc \notin {"INIT", "SANITY_OK", "RAISED"}
    /\ Len(eleves_work) = 2
    /\ \E n \in DOMAIN contraintes : contraintes[n].type = "far_apart"

\* C23: for FarApart(a, b, d) the final validator and the model use the
\* same distance: for every geometry, table offsets and metric setting and
\* every pair of seats (i, j), the model forbids a on i together with b on
\* j exactly when valider_final rejects an assignment putting a on i and b
\* on j.
C23_FarApartSameMetric ==
    DeuxElevesEloignes =>
        \A n \in DOMAIN contraintes :
            contraintes[n].type = "far_apart" =>
                \A i, j \in DOMAIN seats :
                    ModeleAdmet(contraintes[n], i, j)
                        <=> ValidateurAdmet(contraintes[n], i, j)

\* A solved call whose FarApart constraint counts in pixels, with a
\* geometry and a moved table, and forbids a pair of seats the grid distance
\* allows while it allows another pair
C23_Witness ==
    /\ DeuxElevesEloignes
    /\ pc = "DONE"
    /\ solveur.geom # << >>
    /\ DOMAIN solveur.table_offsets # {}
    /\ \E c \in {contraintes[1]} :
          /\ use_px(c)
          /\ \E i, j \in DOMAIN seats :
                /\ ~ModeleAdmet(c, i, j)
                /\ ~ValidateurAdmet(c, i, j)
                /\ distance_manhattan(PositionDuSiege(i), PositionDuSiege(j)) >= c.d
          /\ \E i, j \in DOMAIN seats : ModeleAdmet(c, i, j) /\ ValidateurAdmet(c, i, j)

\* The total injective assignments of the working roster to the seats
AffectationsInjectives ==
    { x \in [DOMAIN eleves_work -> DOMAIN seats] : SeatsDistinct(x) }

\* The seats are enumerated
SiegesEnumeres == pc \notin {"INIT", "SANITY_OK", "RAISED"}

\* C27: declaring the objective variable sumY removes no assignment: for
\* every geometry and table offsets, negative pitches and offsets included,
\* the sum of py over the seats of any total injective assignment lies
\* inside the declared range [0, number of students x max py].
C27_SumYWithinDeclaredRange ==
    SiegesEnumeres => \A x \in AffectationsInjectives : SumYInRange(x, seats)

\* What the code keeps of C27: the range holds every assignment when no
\* seat has a negative py
SumYDansLIntervalleSansPyNegatif ==
    (SiegesEnumeres /\ \A i \in DOMAIN seats : seats[i].py >= 0)
        => \A x \in AffectationsInjectives : SumYInRange(x, seats)

\* The second half of C27 on its own: an instance some injective assignment
\* satisfies under the hard constraints is not reported without solution
FaisableResteFaisable ==
    pc = "NO_SOLUTION" =>
        ~\E x \in AffectationsInjectives :
            /\ DomainsHold(x, allowed_by_e)
            /\ \A n \in DOMAIN contraintes :
                  Encoded(contraintes[n], x, eleves_work, seats, edges_adj)

\* Pass 3 has left its optimum and the solver has a seed: the model of
\* pass 4 is defined
Passe4AvecGraine ==
    /\ pc \in {"PASS3_OPT", "PASS4_OPT"}
    /\ solveur.tiebreak_random
    /\ solveur.seed # << >>

\* C26: when the seed is not null, all pass-4 weights w[e, i] have the same
\* value, so, every student holding exactly one seat, the pass-4 objective
\* has the same value on every feasible assignment and pass 4 prefers no
\* co-optimal assignment over another.
C26_SeededWeightsAreEqual ==
    Passe4AvecGraine =>
        /\ \A e1, e2 \in DOMAIN eleves_work : \A i1, i2 \in DOMAIN seats :
              weights(solveur.seed[1], e1, i1, Cardinality(DOMAIN seats))
                  = weights(solveur.seed[1], e2, i2, Cardinality(DOMAIN seats))
        /\ \E F4 \in {Model4(Model) \cup {}} :
              /\ \A x \in F4 :
                    rand_expr(x) = Len(eleves_work) * tirages(solveur.seed[1])[1]
              /\ pc = "PASS3_OPT" => Optimum4(F4) = F4

\* Pass 4 has run with a seed on a model of several assignments and kept
\* one of them
C26_Witness ==
    /\ Passe4AvecGraine
    /\ pc = "PASS4_OPT"
    /\ x4 # << >>
    /\ \E F4 \in {Model4(Model)} : Cardinality(F4) >= 2 /\ x4[1] \in F4

\* Every constraint on one student holds the roster's own Eleve object, as
\* the constraints the registry builds do
ContraintesSurLesObjetsDuRoster ==
    \A n \in DOMAIN contraintes :
        "meme_objet" \in DOMAIN contraintes[n] => contraintes[n].meme_objet

\* C28: the final validator never rejects what the model accepts: every
\* assignment that satisfies the hard constraints of the model is accepted
\* by valider_final, so the failure of the final check is unreachable
\* after a pass that returned a solution.
C28_ValidatorAcceptsModel ==
    /\ pc = "DOMAINS_BUILT" => \A x \in Model : Valide(x)
    /\ pc # "FAIL_FINAL_CHECK"

\* What the code keeps of C28: the validator accepts the model's
\* assignments when the constraints hold the roster's own objects
ValidateurAccepteSurLesObjetsDuRoster ==
    ContraintesSurLesObjetsDuRoster =>
        /\ pc = "DOMAINS_BUILT" => \A x \in Model : Valide(x)
        /\ pc # "FAIL_FINAL_CHECK"
====
